---- MODULE Spec2Model ----
(***************************************************************************)
(* Model of the socket server of holla-app (the Socket.IO handler of       *)
(* src/unnamed/part_002 over the Prisma schema of src/unnamed/part_000):   *)
(* the in-memory registry connectedUsers, the persisted Message,           *)
(* MessageStatus and User rows, and the handlers join-conversation,        *)
(* leave-conversation, send-message, user-online, mark-messages-read and   *)
(* disconnect.  Every await of a handler is a point where the handlers of  *)
(* other sockets (and other handlers of the same socket) may run.  The     *)
(* client of one user (src/lib/socket-service.ts with the useSocket hook)  *)
(* is modelled on top of it: the socket singleton, the reconnection        *)
(* counter, sendMessage and the offline queue in localStorage.             *)
(***************************************************************************)
EXTENDS Integers, Sequences, FiniteSets, TLC

\* ---------------------------------------------------------------- bounds
\* send-message events handled over a run
MaxMsgs == 2
\* largest value of the wall clock (timestamps 1..MaxClock, 0 is null)
MaxClock == 2
\* persistence calls that fail over a run
MaxFail == 1
\* mark-messages-read events handled over a run
MaxReads == 2
\* messages saved through POST /api/messages/send before a run starts
MaxBacklog == 2
\* POST /api/messages/send is handled while fewer messages than this are stored
MaxPosts == 1
\* calls of the client's sendMessage over a run
MaxCalls == 2
\* setTimeout callbacks of handleReconnection pending at a time
MaxTimers == 2

\* ---------------------------------------------------------------- constants
\* const MAX_RECONNECT_ATTEMPTS = 10
MAX_RECONNECT_ATTEMPTS == 10

\* ---------------------------------------------------------------- universe
None == "none"
Null == 0

Users == {"alice", "bob", "carol"}
UserOrder == <<"alice", "bob", "carol">>
Conversations == {"c1", "c2"}
Sockets == {"s1", "s2", "s3"}

\* the user a client's socket announces and sends as (auth collaborator)
SocketOwner == [s \in Sockets |-> IF s = "s1" THEN "alice" ELSE "bob"]

\* model Participant: the membership rows, immutable in the handlers
Participant ==
    { [userId |-> "alice", conversationId |-> "c1"],
      [userId |-> "bob",   conversationId |-> "c1"],
      [userId |-> "bob",   conversationId |-> "c2"],
      [userId |-> "carol", conversationId |-> "c2"] }

VARIABLES
    now,            \* wall clock read by new Date() and @default(now())
    messages,       \* Message table, in insertion order
    statusRows,     \* MessageStatus table
    nextRowId,      \* MessageStatus ids handed out so far
    updatedAt,      \* Conversation.updatedAt
    userRow,        \* User.isOnline, User.socketId, User.lastSeen
    connectedUsers, \* the registry Map userId -> socket.id
    sockState,      \* "new" | "open" | "closed"
    socketData,     \* socket.data.userId
    rooms,          \* rooms a socket joined
    sendH,          \* send-message handler of each socket
    onlineH,        \* user-online handler of each socket
    readH,          \* mark-messages-read handler of each socket
    discH,          \* disconnect handler of each socket
    wire,           \* events emitted by the server, in order
    submitted,      \* correlation ids in the order send-message was handled
    failures,       \* persistence calls that failed so far
    reads,          \* mark-messages-read events handled so far
    socket,         \* client: the module singleton `socket` (null: None)
    clientSock,     \* client: Socket objects, "none" | "opening" | "connected" | "closed"
    reconnectAttempts, \* client: the module counter
    timers,         \* client: setTimeout callbacks of handleReconnection pending
    initH,          \* client: initializeSocket calls in flight
    offlineMessages, \* client: localStorage "offlineMessages"
    callH,          \* client: the sendMessage call in flight
    flushH,         \* client: sendOfflineMessages runs in flight
    saved,          \* client: local ids whose POST the route has stored
    nextLocal       \* client: sendMessage calls made so far

vars == <<now, messages, statusRows, nextRowId, updatedAt, userRow,
          connectedUsers, sockState, socketData, rooms, sendH, onlineH,
          readH, discH, wire, submitted, failures, reads, socket,
          clientSock, reconnectAttempts, timers, initH, offlineMessages,
          callH, flushH, saved, nextLocal>>

clientVars == <<socket, clientSock, reconnectAttempts, timers, initH,
                offlineMessages, callH, flushH, saved, nextLocal>>

dbVars == <<messages, statusRows, nextRowId, updatedAt, userRow>>
sockVars == <<sockState, socketData, rooms>>
handlerVars == <<sendH, onlineH, readH, discH>>

\* ---------------------------------------------------------------- helpers
RECURSIVE SetToSeqs(_)
\* every order in which a query without orderBy may return the set S
SetToSeqs(S) ==
    IF S = {} THEN { <<>> }
    ELSE UNION { { <<x>> \o q : q \in SetToSeqs(S \ {x}) } : x \in S }

Range(q) == { q[i] : i \in 1..Len(q) }

\* new Date(): the clock may have advanced since it was last read
Clock == { t \in {now, now + 1} : t <= MaxClock }

Message(id) == messages[id]

\* participant.findMany with the where clause dropped: every member of
\* every conversation
participantsOfAny(conversationId) == { p.userId : p \in Participant }

\* prisma.participant.findMany({ where: { conversationId } })
participantsOf(conversationId) ==
    { p.userId : p \in { q \in Participant : q.conversationId = conversationId } }

\* the sockets an emit reaches: those still connected among its targets
Reach(targets) == { s \in targets : sockState[s] = "open" }

\* io.to(conversationId): the sockets that joined the room
Room(conversationId) == { s \in Sockets : conversationId \in rooms[s] }

Event(type, to, conversationId, messageIds, localMessageId, userId, flag) ==
    [ type |-> type, to |-> to, conversationId |-> conversationId,
      messageIds |-> messageIds, localMessageId |-> localMessageId,
      userId |-> userId, flag |-> flag ]

IdleSend == [ pc |-> "idle", conversationId |-> None, localMessageId |-> 0,
              message |-> 0, pending |-> {}, failed |-> FALSE ]
IdleOnline == [ pc |-> "idle", userId |-> None, undeliveredMessages |-> <<>> ]
IdleRead == [ pc |-> "idle", userId |-> None, conversationId |-> None,
              unreadMessages |-> <<>> ]
IdleDisc == [ pc |-> "idle", userId |-> None ]

\* the callers of initializeSocket: the effect of useSocket and its reconnect
Callers == {"effect", "reconnect"}

IdleCall == [ pc |-> "idle", localMessageId |-> 0, conversationId |-> None ]
IdleFlush == [ pc |-> "idle", offlineMessages |-> <<>>, i |-> 0 ]

\* the client module has just been loaded: no socket, an empty queue
ClientStart ==
    /\ socket = None
    /\ clientSock = [s \in Sockets |-> "none"]
    /\ reconnectAttempts = 0
    /\ timers = 0
    /\ initH = [k \in Callers |-> "idle"]
    /\ offlineMessages = <<>>
    /\ callH = IdleCall
    /\ flushH = [s \in Sockets |-> IdleFlush]
    /\ saved = {}
    /\ nextLocal = 0

\* ---------------------------------------------------------------- Init
Init ==
    /\ now = 1
    /\ messages = <<>>
    /\ statusRows = {}
    /\ nextRowId = 0
    /\ updatedAt = [c \in Conversations |-> Null]
    /\ userRow = [u \in Users |->
                    [isOnline |-> FALSE, socketId |-> None, lastSeen |-> Null]]
    /\ connectedUsers = [u \in Users |-> None]
    /\ sockState = [s \in Sockets |-> "new"]
    /\ socketData = [s \in Sockets |-> None]
    /\ rooms = [s \in Sockets |-> {}]
    /\ sendH = [s \in Sockets |-> IdleSend]
    /\ onlineH = [s \in Sockets |-> IdleOnline]
    /\ readH = [s \in Sockets |-> IdleRead]
    /\ discH = [s \in Sockets |-> IdleDisc]
    /\ wire = <<>>
    /\ submitted = <<>>
    /\ failures = 0
    /\ reads = 0
    /\ ClientStart

\* ---------------------------------------------------------------- sockets
\* the connection handler starting the replay query for the socket's user
ConnectionReplays(s) ==
    /\ sockState[s] = "new"
    /\ sockState' = [sockState EXCEPT ![s] = "open"]
    /\ onlineH' = [onlineH EXCEPT ![s] =
                      [IdleOnline EXCEPT !.pc = "find", !.userId = SocketOwner[s]]]
    /\ UNCHANGED <<now, dbVars, connectedUsers, socketData, rooms, sendH,
                   readH, discH, wire, submitted, failures, reads>>
    /\ UNCHANGED clientVars

\* io.on("connection"): a client's socket is accepted; ids are never reused
Connection(s) ==
    /\ sockState[s] = "new"
    /\ sockState' = [sockState EXCEPT ![s] = "open"]
    /\ UNCHANGED <<now, dbVars, connectedUsers, socketData, rooms,
                   handlerVars, wire, submitted, failures, reads>>
    /\ UNCHANGED clientVars

\* socket.on("join-conversation")
JoinConversation(s, conversationId) ==
    /\ sockState[s] = "open"
    /\ conversationId \notin rooms[s]
    /\ rooms' = [rooms EXCEPT ![s] = @ \cup {conversationId}]
    /\ UNCHANGED <<now, dbVars, connectedUsers, sockState, socketData,
                   handlerVars, wire, submitted, failures, reads>>
    /\ UNCHANGED clientVars

\* socket.on("leave-conversation")
LeaveConversation(s, conversationId) ==
    /\ sockState[s] = "open"
    /\ conversationId \in rooms[s]
    /\ rooms' = [rooms EXCEPT ![s] = @ \ {conversationId}]
    /\ UNCHANGED <<now, dbVars, connectedUsers, sockState, socketData,
                   handlerVars, wire, submitted, failures, reads>>
    /\ UNCHANGED clientVars

\* ---------------------------------------------------------------- send-message
\* a persistence call of a handler rejects (storage unavailable)
CanFail == failures < MaxFail

\* a send-message event of socket s arrives; the handler is entered:
\* destructure data, issue prisma.message.create
SendMessageEvent(s, conversationId) ==
    /\ sockState[s] = "open"
    /\ sendH[s].pc = "idle"
    /\ Len(submitted) < MaxMsgs
    /\ LET localMessageId == Len(submitted) + 1
       IN /\ sendH' = [sendH EXCEPT ![s] =
                 [IdleSend EXCEPT !.pc = "create",
                                  !.conversationId = conversationId,
                                  !.localMessageId = localMessageId]]
          /\ submitted' = Append(submitted, localMessageId)
    /\ UNCHANGED <<now, dbVars, connectedUsers, sockVars, onlineH, readH,
                   discH, wire, failures, reads>>

\* send-message emitted by a client that is not modelled
SendMessage(s, conversationId) ==
    SendMessageEvent(s, conversationId) /\ UNCHANGED clientVars

\* the catch emitting message-error without the correlation id
SendCatchNoId(s) ==
    /\ wire' = Append(wire,
          Event("message-error", Reach({s}), None, <<>>, 0, None, FALSE))

\* catch (error): socket.emit("message-error", ...)
SendCatch(s) ==
    /\ wire' = Append(wire,
          Event("message-error", Reach({s}), None, <<>>,
                sendH[s].localMessageId, None, FALSE))

\* await prisma.message.create(...)
SendCreateMessage(s) ==
    /\ sendH[s].pc = "create"
    /\ \E t \in Clock :
          /\ now' = t
          /\ messages' = Append(messages,
                [ id |-> Len(messages) + 1,
                  conversationId |-> sendH[s].conversationId,
                  senderId |-> SocketOwner[s],
                  createdAt |-> t ])
    /\ sendH' = [sendH EXCEPT ![s].pc = "touch",
                              ![s].message = Len(messages) + 1]
    /\ UNCHANGED <<statusRows, nextRowId, updatedAt, userRow, connectedUsers,
                   sockVars, onlineH, readH, discH, wire, submitted,
                   failures, reads>>
    /\ UNCHANGED clientVars

\* the bump of the conversation also stamping the sender's lastSeen
SendTouchUser(s) ==
    /\ sendH[s].pc = "touch"
    /\ \E t \in Clock :
          /\ now' = t
          /\ updatedAt' = [updatedAt EXCEPT ![sendH[s].conversationId] = t]
          /\ userRow' = [userRow EXCEPT ![SocketOwner[s]].lastSeen = t]
    /\ sendH' = [sendH EXCEPT ![s].pc = "participants"]
    /\ UNCHANGED <<messages, statusRows, nextRowId, connectedUsers,
                   sockVars, onlineH, readH, discH, wire, submitted,
                   failures, reads>>
    /\ UNCHANGED clientVars

\* await prisma.conversation.update({ data: { updatedAt: new Date() } })
SendTouchConversation(s) ==
    /\ sendH[s].pc = "touch"
    /\ \E t \in Clock :
          /\ now' = t
          /\ updatedAt' = [updatedAt EXCEPT ![sendH[s].conversationId] = t]
    /\ sendH' = [sendH EXCEPT ![s].pc = "participants"]
    /\ UNCHANGED <<messages, statusRows, nextRowId, userRow, connectedUsers,
                   sockVars, onlineH, readH, discH, wire, submitted,
                   failures, reads>>
    /\ UNCHANGED clientVars

\* the status and deliveredAt of the row created for a participant
InitialStatus(userId, senderId, t) ==
    LET isSender == userId = senderId
        isOnline == connectedUsers[userId] # None
    IN [ status |-> IF isSender THEN "sent"
                    ELSE IF isOnline THEN "delivered" ELSE "sent",
         deliveredAt |-> IF isOnline /\ ~isSender THEN t ELSE Null ]

\* the position of a participant in the list participant.findMany returned
RECURSIVE IndexOf(_, _)
IndexOf(u, i) == IF UserOrder[i] = u THEN i ELSE IndexOf(u, i + 1)

RankIn(u, S) == Cardinality({ v \in S : IndexOf(v, 1) < IndexOf(u, 1) })

\* await prisma.participant.findMany(...), then participants.map(...) up to
\* each messageStatus.create: the creates are issued, none has completed
SendMapParticipants(s) ==
    /\ sendH[s].pc = "participants"
    /\ LET participants == participantsOf(sendH[s].conversationId)
           senderId == SocketOwner[s]
           \* new Date() is evaluated only for an online non-sender
           dated == \E u \in participants :
                       u # senderId /\ connectedUsers[u] # None
       IN \E t \in IF dated THEN Clock ELSE {now} :
          /\ now' = t
          /\ sendH' = [sendH EXCEPT
                ![s].pc = "rows",
                ![s].pending =
                   { [ id |-> nextRowId + RankIn(u, participants) + 1,
                       messageId |-> sendH[s].message,
                       userId |-> u,
                       status |-> InitialStatus(u, senderId, t).status,
                       deliveredAt |-> InitialStatus(u, senderId, t).deliveredAt,
                       readAt |-> Null ] : u \in participants }]
          /\ nextRowId' = nextRowId + Cardinality(participants)
    /\ UNCHANGED <<messages, statusRows, updatedAt, userRow, connectedUsers,
                   sockVars, onlineH, readH, discH, wire, submitted,
                   failures, reads>>
    /\ UNCHANGED clientVars

\* one prisma.messageStatus.create of the Promise.all completes;
\* @@unique([messageId, userId]) rejects a second row for the pair
SendCreateStatus(s) ==
    /\ sendH[s].pc = "rows"
    /\ \E row \in sendH[s].pending :
          /\ ~ \E r \in statusRows :
                  r.messageId = row.messageId /\ r.userId = row.userId
          /\ statusRows' = statusRows \cup {row}
          /\ sendH' = [sendH EXCEPT ![s].pending = @ \ {row}]
    /\ UNCHANGED <<now, messages, nextRowId, updatedAt, userRow,
                   connectedUsers, sockVars, onlineH, readH, discH, wire,
                   submitted, failures, reads>>
    /\ UNCHANGED clientVars

\* the broadcast and the ack without waiting for the Promise.all
SendBroadcastEarly(s) ==
    /\ sendH[s].pc = "rows"
    /\ ~sendH[s].failed
    /\ wire' = wire \o
          << Event("new-message", Reach(Room(sendH[s].conversationId)),
                   sendH[s].conversationId, <<sendH[s].message>>,
                   sendH[s].localMessageId, SocketOwner[s], FALSE),
             Event("message-sent", Reach({s}), None, <<sendH[s].message>>,
                   sendH[s].localMessageId, None, FALSE) >>
    /\ sendH' = [sendH EXCEPT ![s] = IdleSend]
    /\ UNCHANGED <<now, dbVars, connectedUsers, sockVars, onlineH, readH,
                   discH, submitted, failures, reads>>
    /\ UNCHANGED clientVars

\* Promise.all resolved: io.to(conversationId).emit("new-message") and
\* socket.emit("message-sent")
SendBroadcast(s) ==
    /\ sendH[s].pc = "rows"
    /\ sendH[s].pending = {}
    /\ ~sendH[s].failed
    /\ wire' = wire \o
          << Event("new-message", Reach(Room(sendH[s].conversationId)),
                   sendH[s].conversationId, <<sendH[s].message>>,
                   sendH[s].localMessageId, SocketOwner[s], FALSE),
             Event("message-sent", Reach({s}), None, <<sendH[s].message>>,
                   sendH[s].localMessageId, None, FALSE) >>
    /\ sendH' = [sendH EXCEPT ![s] = IdleSend]
    /\ UNCHANGED <<now, dbVars, connectedUsers, sockVars, onlineH, readH,
                   discH, submitted, failures, reads>>
    /\ UNCHANGED clientVars

\* a rejected messageStatus.create is swallowed: no catch, the handler goes on
SendFailSwallowed(s) ==
    /\ CanFail
    /\ \/ /\ sendH[s].pc \in {"create", "touch", "participants"}
          /\ SendCatch(s)
          /\ sendH' = [sendH EXCEPT ![s] = IdleSend]
       \/ /\ sendH[s].pc = "rows"
          /\ \E row \in sendH[s].pending :
                sendH' = [sendH EXCEPT ![s].pending = @ \ {row}]
          /\ UNCHANGED wire
    /\ failures' = failures + 1
    /\ UNCHANGED <<now, dbVars, connectedUsers, sockVars, onlineH, readH,
                   discH, submitted, reads>>
    /\ UNCHANGED clientVars

\* a persistence call of send-message rejects: the first rejection reaches
\* the catch; creates of the Promise.all still in flight keep running
SendFail(s) ==
    /\ CanFail
    /\ \/ /\ sendH[s].pc \in {"create", "touch", "participants"}
          /\ SendCatch(s)
          /\ sendH' = [sendH EXCEPT ![s] = IdleSend]
       \/ /\ sendH[s].pc = "rows"
          /\ \E row \in sendH[s].pending :
                sendH' = [sendH EXCEPT ![s].pending = @ \ {row},
                                       ![s].failed = TRUE]
          /\ IF sendH[s].failed THEN UNCHANGED wire ELSE SendCatch(s)
    /\ failures' = failures + 1
    /\ UNCHANGED <<now, dbVars, connectedUsers, sockVars, onlineH, readH,
                   discH, submitted, reads>>
    /\ UNCHANGED clientVars

\* the last create of a rejected Promise.all has settled
SendSettled(s) ==
    /\ sendH[s].pc = "rows"
    /\ sendH[s].pending = {}
    /\ sendH[s].failed
    /\ sendH' = [sendH EXCEPT ![s] = IdleSend]
    /\ UNCHANGED <<now, dbVars, connectedUsers, sockVars, onlineH, readH,
                   discH, wire, submitted, failures, reads>>
    /\ UNCHANGED clientVars

\* ---------------------------------------------------------------- user-online
RECURSIVE Distinct(_)
\* the distinct elements of q in the order of their first occurrence
\* (the key order of a reduce accumulator, the order of [...new Set(q)])
Distinct(q) ==
    IF q = <<>> THEN <<>>
    ELSE LET rest == Distinct(SubSeq(q, 1, Len(q) - 1))
             last == q[Len(q)]
         IN IF last \in Range(rest) THEN rest ELSE Append(rest, last)

MessageIds(q) == [i \in 1..Len(q) |-> q[i].messageId]
RowIds(q) == { q[i].id : i \in 1..Len(q) }

\* a user-online event of socket s arrives; the handler is entered:
\* issue prisma.user.update
UserOnlineEvent(s) ==
    /\ sockState[s] = "open"
    /\ onlineH[s].pc = "idle"
    /\ onlineH' = [onlineH EXCEPT ![s] =
                      [IdleOnline EXCEPT !.pc = "user", !.userId = SocketOwner[s]]]
    /\ UNCHANGED <<now, dbVars, connectedUsers, sockVars, sendH, readH,
                   discH, wire, submitted, failures, reads>>

\* user-online emitted by a client that is not modelled
UserOnline(s) ==
    UserOnlineEvent(s) /\ UNCHANGED clientVars

\* await prisma.user.update({ data: { socketId: socket.id, isOnline: true } })
OnlineUserUpdate(s) ==
    /\ onlineH[s].pc = "user"
    /\ userRow' = [userRow EXCEPT ![onlineH[s].userId].isOnline = TRUE,
                                  ![onlineH[s].userId].socketId = s]
    /\ onlineH' = [onlineH EXCEPT ![s].pc = "register"]
    /\ UNCHANGED <<now, messages, statusRows, nextRowId, updatedAt,
                   connectedUsers, sockVars, sendH, readH, discH, wire,
                   submitted, failures, reads>>
    /\ UNCHANGED clientVars

\* the registration keeping an entry the user already has
OnlineRegisterFirstWins(s) ==
    /\ onlineH[s].pc = "register"
    /\ socketData' = [socketData EXCEPT ![s] = onlineH[s].userId]
    /\ connectedUsers' = [connectedUsers EXCEPT ![onlineH[s].userId] =
                             IF @ = None THEN s ELSE @]
    /\ wire' = Append(wire,
          Event("user-status-change", Reach(Sockets \ {s}), None, <<>>, 0,
                onlineH[s].userId, TRUE))
    /\ onlineH' = [onlineH EXCEPT ![s].pc = "find"]
    /\ UNCHANGED <<now, dbVars, sockState, rooms, sendH, readH, discH,
                   submitted, failures, reads>>
    /\ UNCHANGED clientVars

\* socket.data.userId = userId; connectedUsers.set(userId, socket.id);
\* socket.broadcast.emit("user-status-change"); issue the replay query
OnlineRegister(s) ==
    /\ onlineH[s].pc = "register"
    /\ socketData' = [socketData EXCEPT ![s] = onlineH[s].userId]
    /\ connectedUsers' = [connectedUsers EXCEPT ![onlineH[s].userId] = s]
    /\ wire' = Append(wire,
          Event("user-status-change", Reach(Sockets \ {s}), None, <<>>, 0,
                onlineH[s].userId, TRUE))
    /\ onlineH' = [onlineH EXCEPT ![s].pc = "find"]
    /\ UNCHANGED <<now, dbVars, sockState, rooms, sendH, readH, discH,
                   submitted, failures, reads>>
    /\ UNCHANGED clientVars

\* the replay query with the status filter dropped
UndeliveredAnyStatus(userId) ==
    { r \in statusRows :
        /\ r.userId = userId
        /\ Message(r.messageId).senderId # userId }

\* the replay query without the sender exclusion
UndeliveredAnySender(userId) ==
    { r \in statusRows : r.userId = userId /\ r.status = "sent" }

\* where: { userId, status: "sent", message: { senderId: { not: userId } } }
Undelivered(userId) ==
    { r \in statusRows :
        /\ r.userId = userId
        /\ r.status = "sent"
        /\ Message(r.messageId).senderId # userId }

\* await prisma.messageStatus.findMany(...): no orderBy, any row order
OnlineFindMany(s) ==
    /\ onlineH[s].pc = "find"
    /\ \E undeliveredMessages \in SetToSeqs(Undelivered(onlineH[s].userId)) :
          onlineH' = [onlineH EXCEPT
             ![s].pc = IF Len(undeliveredMessages) > 0 THEN "update" ELSE "done",
             ![s].undeliveredMessages =
                 [i \in 1..Len(undeliveredMessages) |->
                     [ id |-> undeliveredMessages[i].id,
                       messageId |-> undeliveredMessages[i].messageId ]]]
    /\ UNCHANGED <<now, dbVars, connectedUsers, sockVars, sendH, readH,
                   discH, wire, submitted, failures, reads>>
    /\ UNCHANGED clientVars

\* the rows after updateMany({ where: { id: { in: ids } }, data })
MarkDelivered(rows, ids, t) ==
    { IF r.id \in ids
        THEN [r EXCEPT !.status = "delivered", !.deliveredAt = t]
        ELSE r : r \in rows }

\* await prisma.messageStatus.updateMany(... status: "delivered" ...)
OnlineUpdateMany(s) ==
    /\ onlineH[s].pc = "update"
    /\ \E t \in Clock :
          /\ now' = t
          /\ statusRows' = MarkDelivered(statusRows,
                              RowIds(onlineH[s].undeliveredMessages), t)
    /\ onlineH' = [onlineH EXCEPT ![s].pc = "emit"]
    /\ UNCHANGED <<messages, nextRowId, updatedAt, userRow, connectedUsers,
                   sockVars, sendH, readH, discH, wire, submitted, failures,
                   reads>>
    /\ UNCHANGED clientVars

\* one "undelivered-messages" per message instead of one per conversation
UndeliveredBatchesPerMessage(s, undeliveredMessages) ==
    LET ids == MessageIds(undeliveredMessages)
    IN [k \in 1..Len(ids) |->
          Event("undelivered-messages", Reach({s}),
                Message(ids[k]).conversationId, <<ids[k]>>, 0, None, FALSE)]

\* messagesByConversation, one "undelivered-messages" emit per entry
UndeliveredBatches(s, undeliveredMessages) ==
    LET ids == MessageIds(undeliveredMessages)
        keys == Distinct([i \in 1..Len(ids) |-> Message(ids[i]).conversationId])
        InConv(c) == LET Test(m) == Message(m).conversationId = c
                     IN SelectSeq(ids, Test)
    IN [k \in 1..Len(keys) |->
          Event("undelivered-messages", Reach({s}), keys[k], InConv(keys[k]),
                0, None, FALSE)]

\* one "messages-delivered" per message instead of one per sender
DeliveredNoticesPerMessage(userId, undeliveredMessages) ==
    LET ids == MessageIds(undeliveredMessages)
        Known(m) == connectedUsers[Message(m).senderId] # None
        notified == SelectSeq(ids, Known)
    IN [k \in 1..Len(notified) |->
          Event("messages-delivered",
                Reach({connectedUsers[Message(notified[k]).senderId]}),
                None, <<notified[k]>>, 0, userId, FALSE)]

\* senderIds.forEach: "messages-delivered" to each sender in the registry
DeliveredNotices(userId, undeliveredMessages) ==
    LET ids == MessageIds(undeliveredMessages)
        senderIds == Distinct([i \in 1..Len(ids) |-> Message(ids[i]).senderId])
        Known(senderId) == connectedUsers[senderId] # None
        notified == SelectSeq(senderIds, Known)
        BySender(senderId) == LET Test(m) == Message(m).senderId = senderId
                              IN SelectSeq(ids, Test)
    IN [k \in 1..Len(notified) |->
          Event("messages-delivered", Reach({connectedUsers[notified[k]]}),
                None, BySender(notified[k]), 0, userId, FALSE)]

\* the updateMany resolved: group, emit the batches, notify the senders
OnlineEmit(s) ==
    /\ onlineH[s].pc = "emit"
    /\ wire' = wire \o UndeliveredBatches(s, onlineH[s].undeliveredMessages)
                    \o DeliveredNotices(onlineH[s].userId,
                                        onlineH[s].undeliveredMessages)
    /\ onlineH' = [onlineH EXCEPT ![s].pc = "done"]
    /\ UNCHANGED <<now, dbVars, connectedUsers, sockVars, sendH, readH,
                   discH, submitted, failures, reads>>
    /\ UNCHANGED clientVars

\* a persistence call of user-online rejects: catch, console.error
OnlineFail(s) ==
    /\ CanFail
    /\ onlineH[s].pc \in {"user", "find", "update"}
    /\ onlineH' = [onlineH EXCEPT ![s].pc = "done"]
    /\ failures' = failures + 1
    /\ UNCHANGED <<now, dbVars, connectedUsers, sockVars, sendH, readH,
                   discH, wire, submitted, reads>>
    /\ UNCHANGED clientVars

\* ---------------------------------------------------------------- mark-messages-read
\* the handler is entered: issue the query for the unread rows
MarkMessagesRead(s, conversationId) ==
    /\ sockState[s] = "open"
    /\ readH[s].pc = "idle"
    /\ reads < MaxReads
    /\ reads' = reads + 1
    /\ readH' = [readH EXCEPT ![s] =
                    [IdleRead EXCEPT !.pc = "find", !.userId = SocketOwner[s],
                                     !.conversationId = conversationId]]
    /\ UNCHANGED <<now, dbVars, connectedUsers, sockVars, sendH, onlineH,
                   discH, wire, submitted, failures>>
    /\ UNCHANGED clientVars

\* the unread query without the sender exclusion
UnreadAnySender(userId, conversationId) ==
    { r \in statusRows :
        /\ r.userId = userId
        /\ r.status \in {"sent", "delivered"}
        /\ Message(r.messageId).conversationId = conversationId }

\* where: { userId, status: { in: ["sent", "delivered"] },
\*          message: { conversationId, senderId: { not: userId } } }
Unread(userId, conversationId) ==
    { r \in statusRows :
        /\ r.userId = userId
        /\ r.status \in {"sent", "delivered"}
        /\ Message(r.messageId).conversationId = conversationId
        /\ Message(r.messageId).senderId # userId }

\* await prisma.messageStatus.findMany(...)
ReadFindMany(s) ==
    /\ readH[s].pc = "find"
    /\ \E unreadMessages \in
            SetToSeqs(Unread(readH[s].userId, readH[s].conversationId)) :
          readH' = [readH EXCEPT
             ![s] = IF Len(unreadMessages) > 0
                    THEN [@ EXCEPT !.pc = "update",
                            !.unreadMessages =
                               [i \in 1..Len(unreadMessages) |->
                                  [ id |-> unreadMessages[i].id,
                                    messageId |-> unreadMessages[i].messageId ]]]
                    ELSE IdleRead]
    /\ UNCHANGED <<now, dbVars, connectedUsers, sockVars, sendH, onlineH,
                   discH, wire, submitted, failures, reads>>
    /\ UNCHANGED clientVars

\* the read update also stamping deliveredAt
MarkReadStamped(rows, ids, t) ==
    { IF r.id \in ids
        THEN [r EXCEPT !.status = "read", !.readAt = t, !.deliveredAt = t]
        ELSE r : r \in rows }

\* the rows after updateMany({ where: { id: { in: ids } }, data })
MarkRead(rows, ids, t) ==
    { IF r.id \in ids
        THEN [r EXCEPT !.status = "read", !.readAt = t]
        ELSE r : r \in rows }

\* await prisma.messageStatus.updateMany(... status: "read" ...)
ReadUpdateMany(s) ==
    /\ readH[s].pc = "update"
    /\ \E t \in Clock :
          /\ now' = t
          /\ statusRows' = MarkRead(statusRows,
                              RowIds(readH[s].unreadMessages), t)
    /\ readH' = [readH EXCEPT ![s].pc = "emit"]
    /\ UNCHANGED <<messages, nextRowId, updatedAt, userRow, connectedUsers,
                   sockVars, sendH, onlineH, discH, wire, submitted,
                   failures, reads>>
    /\ UNCHANGED clientVars

\* one "messages-read" per message instead of one per sender
ReadNoticesPerMessage(userId, conversationId, unreadMessages) ==
    LET ids == MessageIds(unreadMessages)
        Known(m) == connectedUsers[Message(m).senderId] # None
        notified == SelectSeq(ids, Known)
    IN [k \in 1..Len(notified) |->
          Event("messages-read",
                Reach({connectedUsers[Message(notified[k]).senderId]}),
                conversationId, <<notified[k]>>, 0, userId, FALSE)]

\* messagesBySender, "messages-read" to each sender in the registry
ReadNotices(userId, conversationId, unreadMessages) ==
    LET ids == MessageIds(unreadMessages)
        senderIds == Distinct([i \in 1..Len(ids) |-> Message(ids[i]).senderId])
        Known(senderId) == connectedUsers[senderId] # None
        notified == SelectSeq(senderIds, Known)
        BySender(senderId) == LET Test(m) == Message(m).senderId = senderId
                              IN SelectSeq(ids, Test)
    IN [k \in 1..Len(notified) |->
          Event("messages-read", Reach({connectedUsers[notified[k]]}),
                conversationId, BySender(notified[k]), 0, userId, FALSE)]

\* the updateMany resolved: group by sender and notify
ReadEmit(s) ==
    /\ readH[s].pc = "emit"
    /\ wire' = wire \o ReadNotices(readH[s].userId, readH[s].conversationId,
                                   readH[s].unreadMessages)
    /\ readH' = [readH EXCEPT ![s] = IdleRead]
    /\ UNCHANGED <<now, dbVars, connectedUsers, sockVars, sendH, onlineH,
                   discH, submitted, failures, reads>>
    /\ UNCHANGED clientVars

\* the rejection escapes the handler and the process exits: every socket
\* drops, the registry and the running handlers are gone
ReadFailUnhandled(s) ==
    /\ CanFail
    /\ readH[s].pc \in {"find", "update"}
    /\ failures' = failures + 1
    /\ sockState' = [z \in Sockets |->
                       IF sockState[z] = "open" THEN "closed" ELSE sockState[z]]
    /\ rooms' = [z \in Sockets |-> {}]
    /\ connectedUsers' = [u \in Users |-> None]
    /\ sendH' = [z \in Sockets |-> IdleSend]
    /\ onlineH' = [z \in Sockets |-> IdleOnline]
    /\ readH' = [z \in Sockets |-> IdleRead]
    /\ discH' = [z \in Sockets |-> IdleDisc]
    /\ UNCHANGED <<now, dbVars, socketData, wire, submitted, reads>>
    /\ UNCHANGED clientVars

\* a persistence call of mark-messages-read rejects: catch, console.error
ReadFail(s) ==
    /\ CanFail
    /\ readH[s].pc \in {"find", "update"}
    /\ readH' = [readH EXCEPT ![s] = IdleRead]
    /\ failures' = failures + 1
    /\ UNCHANGED <<now, dbVars, connectedUsers, sockVars, sendH, onlineH,
                   discH, wire, submitted, reads>>
    /\ UNCHANGED clientVars

\* ---------------------------------------------------------------- disconnect
\* the socket closes and leaves its rooms; the handler reads
\* socket.data.userId and, if set, issues prisma.user.update
Disconnect(s) ==
    /\ sockState[s] = "open"
    /\ sockState' = [sockState EXCEPT ![s] = "closed"]
    /\ rooms' = [rooms EXCEPT ![s] = {}]
    /\ discH' = [discH EXCEPT ![s] =
                    IF socketData[s] # None
                    THEN [pc |-> "user", userId |-> socketData[s]]
                    ELSE [pc |-> "done", userId |-> None]]
    /\ UNCHANGED <<now, dbVars, connectedUsers, socketData, sendH, onlineH,
                   readH, wire, submitted, failures, reads>>
    /\ UNCHANGED clientVars

\* await prisma.user.update({ data: { isOnline: false, lastSeen, socketId: null } })
DisconnectUserUpdate(s) ==
    /\ discH[s].pc = "user"
    /\ \E t \in Clock :
          /\ now' = t
          /\ userRow' = [userRow EXCEPT ![discH[s].userId] =
                [isOnline |-> FALSE, socketId |-> None, lastSeen |-> t]]
    /\ discH' = [discH EXCEPT ![s].pc = "delete"]
    /\ UNCHANGED <<messages, statusRows, nextRowId, updatedAt, connectedUsers,
                   sockVars, sendH, onlineH, readH, wire, submitted,
                   failures, reads>>
    /\ UNCHANGED clientVars

\* the delete sparing an entry that holds another socket, the broadcast kept
DisconnectDeleteOwn(s) ==
    /\ discH[s].pc = "delete"
    /\ connectedUsers' = [connectedUsers EXCEPT ![discH[s].userId] =
                             IF @ = s THEN None ELSE @]
    /\ wire' = Append(wire,
          Event("user-status-change", Reach(Sockets \ {s}), None, <<>>, 0,
                discH[s].userId, FALSE))
    /\ discH' = [discH EXCEPT ![s].pc = "done"]
    /\ UNCHANGED <<now, dbVars, sockVars, sendH, onlineH, readH, submitted,
                   failures, reads>>
    /\ UNCHANGED clientVars

\* connectedUsers.delete(userId); socket.broadcast.emit("user-status-change")
DisconnectDelete(s) ==
    /\ discH[s].pc = "delete"
    /\ connectedUsers' = [connectedUsers EXCEPT ![discH[s].userId] = None]
    /\ wire' = Append(wire,
          Event("user-status-change", Reach(Sockets \ {s}), None, <<>>, 0,
                discH[s].userId, FALSE))
    /\ discH' = [discH EXCEPT ![s].pc = "done"]
    /\ UNCHANGED <<now, dbVars, sockVars, sendH, onlineH, readH, submitted,
                   failures, reads>>
    /\ UNCHANGED clientVars

\* the user.update of disconnect rejects: catch, the registry is not touched
DisconnectFail(s) ==
    /\ CanFail
    /\ discH[s].pc = "user"
    /\ discH' = [discH EXCEPT ![s].pc = "done"]
    /\ failures' = failures + 1
    /\ UNCHANGED <<now, dbVars, connectedUsers, sockVars, sendH, onlineH,
                   readH, wire, submitted, reads>>
    /\ UNCHANGED clientVars

\* ---------------------------------------------------------------- specification
\* the steps of each handler of socket s
ConnectionStep(s) ==
    \/ Connection(s)
    \/ Disconnect(s)
    \/ DisconnectUserUpdate(s)
    \/ DisconnectDelete(s)

RoomStep(s) ==
    \/ \E c \in Conversations : JoinConversation(s, c)
    \/ \E c \in Conversations : LeaveConversation(s, c)

SendStep(s) ==
    \/ \E c \in Conversations : SendMessage(s, c)
    \/ SendCreateMessage(s)
    \/ SendTouchConversation(s)
    \/ SendMapParticipants(s)
    \/ SendCreateStatus(s)
    \/ SendBroadcast(s)

OnlineStep(s) ==
    \/ UserOnline(s)
    \/ OnlineUserUpdate(s)
    \/ OnlineRegister(s)
    \/ OnlineFindMany(s)
    \/ OnlineUpdateMany(s)
    \/ OnlineEmit(s)

ReadStep(s) ==
    \/ \E c \in Conversations : MarkMessagesRead(s, c)
    \/ ReadFindMany(s)
    \/ ReadUpdateMany(s)
    \/ ReadEmit(s)

FailStep(s) ==
    \/ SendFail(s)
    \/ SendSettled(s)
    \/ OnlineFail(s)
    \/ ReadFail(s)
    \/ DisconnectFail(s)

\* the server: every handler of every socket, interleaved at the awaits
Next ==
    \E s \in Sockets :
       \/ ConnectionStep(s)
       \/ RoomStep(s)
       \/ SendStep(s)
       \/ OnlineStep(s)
       \/ ReadStep(s)
       \/ FailStep(s)

Spec == Init /\ [][Next]_vars

\* ---------------------------------------------------------------- scenarios
\* POST /api/messages/send for every entry of q in turn, all within one
\* clock value t: message.create, one messageStatus.create per participant
\* with the status taken from User.isOnline, conversation.update
RECURSIVE RestSend(_, _, _)
RestSend(q, isOnline, t) ==
    IF q = <<>>
    THEN [ messages |-> <<>>, statusRows |-> {}, nextRowId |-> 0,
           updatedAt |-> [c \in Conversations |-> Null] ]
    ELSE LET db == RestSend(SubSeq(q, 1, Len(q) - 1), isOnline, t)
             m == q[Len(q)]
             participants == participantsOf(m.conversationId)
             id == Len(db.messages) + 1
         IN [ messages |-> Append(db.messages,
                  [ id |-> id, conversationId |-> m.conversationId,
                    senderId |-> m.senderId, createdAt |-> t ]),
              statusRows |-> db.statusRows \cup
                  { [ id |-> db.nextRowId + RankIn(u, participants) + 1,
                      messageId |-> id,
                      userId |-> u,
                      status |-> IF u = m.senderId THEN "sent"
                                 ELSE IF isOnline[u] THEN "delivered"
                                 ELSE "sent",
                      deliveredAt |-> IF isOnline[u] /\ u # m.senderId
                                      THEN t ELSE Null,
                      readAt |-> Null ] : u \in participants },
              nextRowId |-> db.nextRowId + Cardinality(participants),
              updatedAt |-> [db.updatedAt EXCEPT ![m.conversationId] = t] ]

\* the requests the REST route accepts: the session user is a participant
RestRequests ==
    { [conversationId |-> p.conversationId, senderId |-> p.userId] :
        p \in Participant }

\* the server has started, MaxBacklog messages of the given senders were
\* saved through the REST route while nobody had a socket, and then the
\* sockets in `online` connected and completed their user-online
InitAfterRest(senders, online) ==
    /\ now = 1
    /\ \E q \in [1..MaxBacklog -> { r \in RestRequests : r.senderId \in senders }] :
          LET db == RestSend(q, [u \in Users |-> FALSE], 1)
          IN /\ messages = db.messages
             /\ statusRows = db.statusRows
             /\ nextRowId = db.nextRowId
             /\ updatedAt = db.updatedAt
    /\ \E S \in online :
          /\ userRow = [u \in Users |->
                IF \E s \in S : SocketOwner[s] = u
                THEN [isOnline |-> TRUE,
                      socketId |-> CHOOSE s \in S : SocketOwner[s] = u,
                      lastSeen |-> Null]
                ELSE [isOnline |-> FALSE, socketId |-> None, lastSeen |-> Null]]
          /\ connectedUsers = [u \in Users |->
                IF \E s \in S : SocketOwner[s] = u
                THEN CHOOSE s \in S : SocketOwner[s] = u ELSE None]
          /\ sockState = [s \in Sockets |-> IF s \in S THEN "open" ELSE "new"]
          /\ socketData = [s \in Sockets |-> IF s \in S THEN SocketOwner[s] ELSE None]
          /\ onlineH = [s \in Sockets |->
                IF s \in S
                THEN [IdleOnline EXCEPT !.pc = "done", !.userId = SocketOwner[s]]
                ELSE IdleOnline]
          /\ wire = IF S = {} THEN <<>>
                    ELSE << Event("user-status-change", {}, None, <<>>, 0,
                                  SocketOwner[CHOOSE s \in S : TRUE], TRUE) >>
    /\ rooms = [s \in Sockets |-> {}]
    /\ sendH = [s \in Sockets |-> IdleSend]
    /\ readH = [s \in Sockets |-> IdleRead]
    /\ discH = [s \in Sockets |-> IdleDisc]
    /\ submitted = <<>>
    /\ failures = 0
    /\ reads = 0
    /\ ClientStart

\* POST /api/messages/send of session user userId, run to completion within
\* one clock value: the participant check, message.create, one
\* messageStatus.create per participant with isOnline read from the User
\* row, conversation.update; nothing is emitted on the sockets
PostRequest(userId, conversationId) ==
    /\ [userId |-> userId, conversationId |-> conversationId] \in Participant
    /\ Len(messages) < MaxPosts
    /\ \E t \in Clock :
          LET participants == participantsOf(conversationId)
              id == Len(messages) + 1
          IN /\ now' = t
             /\ messages' = Append(messages,
                   [ id |-> id, conversationId |-> conversationId,
                     senderId |-> userId, createdAt |-> t ])
             /\ statusRows' = statusRows \cup
                   { [ id |-> nextRowId + RankIn(u, participants) + 1,
                       messageId |-> id,
                       userId |-> u,
                       status |-> IF u = userId THEN "sent"
                                  ELSE IF userRow[u].isOnline THEN "delivered"
                                  ELSE "sent",
                       deliveredAt |-> IF userRow[u].isOnline /\ u # userId
                                       THEN t ELSE Null,
                       readAt |-> Null ] : u \in participants }
             /\ nextRowId' = nextRowId + Cardinality(participants)
             /\ updatedAt' = [updatedAt EXCEPT ![conversationId] = t]
    /\ UNCHANGED <<userRow, connectedUsers, sockVars, handlerVars, wire,
                   submitted, failures, reads>>

\* the POST of a client that is not modelled
PostMessage(userId, conversationId) ==
    PostRequest(userId, conversationId) /\ UNCHANGED clientVars

\* messages for bob are waiting; alice may be online through s1
InitBacklog == InitAfterRest({"alice", "carol"}, { {}, {"s1"} })

\* messages sent by bob are waiting for alice, who is online through s1
InitOutbox == InitAfterRest({"bob"}, { {"s1"} })

\* alice's socket s1 and bob's socket s2 have connected, s2 has joined the
\* rooms of bob's conversations and its user-online has completed
InitOnline ==
    /\ now = 1
    /\ messages = <<>>
    /\ statusRows = {}
    /\ nextRowId = 0
    /\ updatedAt = [c \in Conversations |-> Null]
    /\ userRow = [u \in Users |->
                    IF u = "bob"
                    THEN [isOnline |-> TRUE, socketId |-> "s2", lastSeen |-> Null]
                    ELSE [isOnline |-> FALSE, socketId |-> None, lastSeen |-> Null]]
    /\ connectedUsers = [u \in Users |-> IF u = "bob" THEN "s2" ELSE None]
    /\ sockState = [s \in Sockets |-> IF s = "s3" THEN "new" ELSE "open"]
    /\ socketData = [s \in Sockets |-> IF s = "s2" THEN "bob" ELSE None]
    /\ rooms = [s \in Sockets |-> IF s = "s2" THEN {"c1", "c2"} ELSE {}]
    /\ sendH = [s \in Sockets |-> IdleSend]
    /\ onlineH = [s \in Sockets |->
                    IF s = "s2"
                    THEN [IdleOnline EXCEPT !.pc = "done", !.userId = "bob"]
                    ELSE IdleOnline]
    /\ readH = [s \in Sockets |-> IdleRead]
    /\ discH = [s \in Sockets |-> IdleDisc]
    /\ wire = << Event("user-status-change", {"s1"}, None, <<>>, 0, "bob", TRUE) >>
    /\ submitted = <<>>
    /\ failures = 0
    /\ reads = 0
    /\ ClientStart

\* send-message from alice and bob while bob comes online; persistence may fail
NextSend ==
    \/ \E s \in {"s1", "s2"} :
          Connection(s) \/ SendStep(s) \/ SendFail(s) \/ SendSettled(s)
    \/ OnlineStep("s2")

SpecSend == Init /\ [][NextSend]_vars

\* send-message from alice and bob to the rooms the two sockets join and leave
NextOrder ==
    \E s \in {"s1", "s2"} : Connection(s) \/ RoomStep(s) \/ SendStep(s)

SpecOrder == Init /\ [][NextOrder]_vars

\* bob's two sockets come online over a backlog while s2 marks it read
NextReplay ==
    \/ \E s \in {"s2", "s3"} : Connection(s) \/ OnlineStep(s)
    \/ ReadStep("s2")

SpecReplay == InitBacklog /\ [][NextReplay]_vars

\* alice sends while bob is away; bob's socket marks read and comes online
NextOffline ==
    \/ Connection("s1") \/ SendStep("s1")
    \/ Connection("s2") \/ ReadStep("s2") \/ OnlineStep("s2")

SpecOffline == Init /\ [][NextOffline]_vars

\* alice sends to bob, whose socket s2 drops and whose socket s3 connects
NextRace ==
    \/ SendStep("s1")
    \/ Disconnect("s2") \/ DisconnectUserUpdate("s2") \/ DisconnectDelete("s2")
    \/ Connection("s3") \/ OnlineStep("s3")

SpecRace == InitOnline /\ [][NextRace]_vars

\* bob's two sockets come online and drop while alice reads bob's messages
NextRegistry ==
    \/ \E s \in {"s2", "s3"} :
          \/ Connection(s)
          \/ UserOnline(s) \/ OnlineUserUpdate(s) \/ OnlineRegister(s)
          \/ OnlineFindMany(s)
          \/ Disconnect(s) \/ DisconnectUserUpdate(s) \/ DisconnectDelete(s)
    \/ ReadStep("s1")

SpecRegistry == InitOutbox /\ [][NextRegistry]_vars

\* alice and bob send while bob's socket comes online and marks read
NextOwn ==
    \/ Connection("s1") \/ SendStep("s1")
    \/ Connection("s2") \/ SendStep("s2") \/ ReadStep("s2") \/ OnlineStep("s2")

SpecOwn == Init /\ [][NextOwn]_vars

\* alice posts through the REST route and sends through her socket while
\* bob's socket comes online and drops
NextPost ==
    \/ \E c \in Conversations : PostMessage("alice", c)
    \/ Connection("s1") \/ SendStep("s1")
    \/ Connection("s2") \/ OnlineStep("s2")
    \/ Disconnect("s2") \/ DisconnectUserUpdate("s2") \/ DisconnectDelete("s2")

SpecPost == Init /\ [][NextPost]_vars

\* two messages of carol are stored; alice's socket comes online and sends,
\* bob's socket marks conversations read
InitInbox == InitAfterRest({"carol"}, { {} })

NextNotify ==
    \/ Connection("s1") \/ SendStep("s1")
    \/ UserOnline("s1") \/ OnlineUserUpdate("s1") \/ OnlineRegister("s1")
    \/ OnlineFindMany("s1")
    \/ Connection("s2") \/ ReadStep("s2")

SpecNotify == InitInbox /\ [][NextNotify]_vars

\* alice is online through s1 and has sent one message to c1 through it
\* while bob had no socket
InitBusy ==
    /\ now = 1
    /\ messages = << [ id |-> 1, conversationId |-> "c1", senderId |-> "alice",
                       createdAt |-> 1 ] >>
    /\ statusRows =
          { [ id |-> RankIn(u, participantsOf("c1")) + 1, messageId |-> 1,
              userId |-> u, status |-> "sent", deliveredAt |-> Null,
              readAt |-> Null ] : u \in participantsOf("c1") }
    /\ nextRowId = Cardinality(participantsOf("c1"))
    /\ updatedAt = [c \in Conversations |-> IF c = "c1" THEN 1 ELSE Null]
    /\ userRow = [u \in Users |->
                    IF u = "alice"
                    THEN [isOnline |-> TRUE, socketId |-> "s1", lastSeen |-> Null]
                    ELSE [isOnline |-> FALSE, socketId |-> None, lastSeen |-> Null]]
    /\ connectedUsers = [u \in Users |-> IF u = "alice" THEN "s1" ELSE None]
    /\ sockState = [s \in Sockets |-> IF s = "s1" THEN "open" ELSE "new"]
    /\ socketData = [s \in Sockets |-> IF s = "s1" THEN "alice" ELSE None]
    /\ rooms = [s \in Sockets |-> {}]
    /\ sendH = [s \in Sockets |-> IdleSend]
    /\ onlineH = [s \in Sockets |->
                    IF s = "s1"
                    THEN [IdleOnline EXCEPT !.pc = "done", !.userId = "alice"]
                    ELSE IdleOnline]
    /\ readH = [s \in Sockets |-> IdleRead]
    /\ discH = [s \in Sockets |-> IdleDisc]
    /\ wire = << Event("user-status-change", {}, None, <<>>, 0, "alice", TRUE),
                 Event("new-message", {}, "c1", <<1>>, 1, "alice", FALSE),
                 Event("message-sent", {"s1"}, None, <<1>>, 1, None, FALSE) >>
    /\ submitted = <<1>>
    /\ failures = 0
    /\ reads = 0
    /\ ClientStart

\* bob's socket sends, comes online, marks read and drops; any persistence
\* call of any of its handlers may fail
NextFail ==
    \/ Connection("s2")
    \/ SendStep("s2") \/ SendFail("s2") \/ SendSettled("s2")
    \/ OnlineStep("s2") \/ OnlineFail("s2")
    \/ ReadStep("s2") \/ ReadFail("s2")
    \/ Disconnect("s2") \/ DisconnectUserUpdate("s2") \/ DisconnectDelete("s2")
    \/ DisconnectFail("s2")

SpecFail == InitBusy /\ [][NextFail]_vars

\* bob's socket joins and leaves rooms, sends, marks read, comes online and
\* drops
NextFrame ==
    \/ Connection("s2") \/ RoomStep("s2") \/ SendStep("s2") \/ ReadStep("s2")
    \/ OnlineStep("s2")
    \/ Disconnect("s2") \/ DisconnectUserUpdate("s2") \/ DisconnectDelete("s2")

SpecFrame == InitBusy /\ [][NextFrame]_vars

\* alice sends while bob's registered socket joins and leaves rooms; there
\* is no user-online and no mark-messages-read, so a row that is delivered
\* was created delivered
NextRooms == SendStep("s1") \/ RoomStep("s2")

SpecRooms == InitOnline /\ [][NextRooms]_vars

\* ---------------------------------------------------------------- client
\* the browser tab of bob: src/lib/socket-service.ts and the useSocket hook
ClientUser == "bob"

\* the ids the server gives to the sockets this client creates
ClientSockets == { s \in Sockets : SocketOwner[s] = ClientUser }

serverVars == <<now, dbVars, connectedUsers, sockVars, handlerVars, wire,
                submitted, failures, reads>>

\* socket.connected of a Socket object of the client
Connected(s) == clientSock[s] = "connected"

\* the Socket objects after sock.close() / sock.disconnect(), if sock is set
Closed(socks, sock) ==
    IF sock = None THEN socks ELSE [socks EXCEPT ![sock] = "closed"]

\* a caller enters initializeSocket (reconnect calls disconnectSocket
\* first): return the singleton if it is connected, otherwise close it
\* and await fetch("/api/socket")
InitializeSocket(k) ==
    /\ initH[k] = "idle"
    /\ Cardinality({ s \in ClientSockets : clientSock[s] = "none" })
          > Cardinality({ j \in Callers : initH[j] = "fetch" })
    /\ LET dropped == k = "reconnect" /\ socket # None
           sock == IF dropped THEN None ELSE socket
           socks == IF dropped THEN Closed(clientSock, socket) ELSE clientSock
       IN IF sock # None /\ Connected(sock)
          THEN UNCHANGED <<socket, clientSock, initH>>
          ELSE /\ socket' = sock
               /\ clientSock' = Closed(socks, sock)
               /\ initH' = [initH EXCEPT ![k] = "fetch"]
    /\ UNCHANGED <<serverVars, reconnectAttempts, timers, offlineMessages,
                   callH, flushH, saved, nextLocal>>

\* the fetch has settled: socket = io(socketUrl, { forceNew: true, ... }),
\* the listeners are registered, the socket is returned to the hook
SocketCreated(k) ==
    /\ initH[k] = "fetch"
    /\ \E s \in ClientSockets :
          /\ clientSock[s] = "none"
          /\ clientSock' = [clientSock EXCEPT ![s] = "opening"]
          /\ socket' = s
    /\ initH' = [initH EXCEPT ![k] = "idle"]
    /\ UNCHANGED <<serverVars, reconnectAttempts, timers, offlineMessages,
                   callH, flushH, saved, nextLocal>>

\* the server accepts the connection of a socket the client is opening
SocketAccepted(s) ==
    /\ clientSock[s] = "opening"
    /\ Connection(s)

\* the server sees a socket go away that the client has closed
SocketDropped(s) ==
    /\ clientSock[s] = "closed"
    /\ Disconnect(s)

\* the queue entry of a message
Queued(localMessageId, conversationId) ==
    [ localMessageId |-> localMessageId, conversationId |-> conversationId ]

\* sendOfflineMessages() up to its first fetch, started for socket s
FlushStarted(s, socks) ==
    IF socket # None /\ socks[socket] = "connected" /\ offlineMessages # <<>>
    THEN [flushH EXCEPT ![s] =
             [ pc |-> "post", offlineMessages |-> offlineMessages, i |-> 1 ]]
    ELSE flushH

\* "connect" of socket s: reconnectAttempts = 0 and socket?.emit("user-online")
\* on the singleton (socket-service), sendOfflineMessages() (useSocket)
SocketConnect(s) ==
    /\ clientSock[s] = "opening"
    /\ sockState[s] = "open"
    /\ clientSock' = [clientSock EXCEPT ![s] = "connected"]
    /\ reconnectAttempts' = 0
    /\ IF socket # None /\ clientSock'[socket] = "connected"
          /\ sockState[socket] = "open" /\ onlineH[socket].pc = "idle"
       THEN UserOnlineEvent(socket)
       ELSE UNCHANGED serverVars
    /\ flushH' = FlushStarted(s, clientSock')
    /\ UNCHANGED <<socket, timers, initH, offlineMessages, callH, saved,
                   nextLocal>>

\* handleReconnection() counting without the limit
HandleReconnectionUnlimited ==
    IF socket # None
    THEN /\ timers < MaxTimers
         /\ reconnectAttempts' = reconnectAttempts + 1
         /\ timers' = timers + 1
    ELSE UNCHANGED <<reconnectAttempts, timers>>

\* handleReconnection(): below the limit and with a singleton, count the
\* attempt and schedule socket?.connect()
HandleReconnection ==
    IF reconnectAttempts < MAX_RECONNECT_ATTEMPTS /\ socket # None
    THEN /\ timers < MaxTimers
         /\ reconnectAttempts' = reconnectAttempts + 1
         /\ timers' = timers + 1
    ELSE UNCHANGED <<reconnectAttempts, timers>>

\* "connect_error" of socket s, fired for every attempt that does not
\* reach the server
SocketConnectError(s) ==
    /\ clientSock[s] = "opening"
    /\ sockState[s] = "new"
    /\ HandleReconnection
    /\ UNCHANGED <<serverVars, socket, clientSock, initH, offlineMessages,
                   callH, flushH, saved, nextLocal>>

\* the setTimeout callback: socket?.connect() reopens a singleton that was
\* closed before the server accepted it (a reconnection the server would
\* see under a new id is left out)
ReconnectTimer ==
    /\ timers > 0
    /\ timers' = timers - 1
    /\ clientSock' = IF socket # None /\ clientSock[socket] = "closed"
                        /\ sockState[socket] = "new"
                     THEN [clientSock EXCEPT ![socket] = "opening"]
                     ELSE clientSock
    /\ UNCHANGED <<serverVars, socket, reconnectAttempts, initH,
                   offlineMessages, callH, flushH, saved, nextLocal>>

\* sendMessage(message) is called: localMessageId is taken and the POST
\* to /api/messages/send is issued
ClientSendMessage(conversationId) ==
    /\ callH.pc = "idle"
    /\ nextLocal < MaxCalls
    /\ [userId |-> ClientUser, conversationId |-> conversationId]
          \in Participant
    /\ nextLocal' = nextLocal + 1
    /\ callH' = [ pc |-> "post", localMessageId |-> nextLocal + 1,
                  conversationId |-> conversationId ]
    /\ UNCHANGED <<serverVars, socket, clientSock, reconnectAttempts, timers,
                   initH, offlineMessages, flushH, saved>>

\* the route handles the POST of sendMessage
ClientSendPost ==
    /\ callH.pc = "post"
    /\ PostRequest(ClientUser, callH.conversationId)
    /\ callH' = [callH EXCEPT !.pc = "saved"]
    /\ saved' = saved \cup {callH.localMessageId}
    /\ UNCHANGED <<socket, clientSock, reconnectAttempts, timers, initH,
                   offlineMessages, flushH, nextLocal>>

\* response.ok: if (socket?.connected) socket.emit("send-message", ...)
ClientSendSaved ==
    /\ callH.pc = "saved"
    /\ IF socket # None /\ Connected(socket)
       THEN SendMessageEvent(socket, callH.conversationId)
       ELSE UNCHANGED serverVars
    /\ callH' = IdleCall
    /\ UNCHANGED <<socket, clientSock, reconnectAttempts, timers, initH,
                   offlineMessages, flushH, saved, nextLocal>>

\* the fetch rejects or the response is not ok: catch, storeOfflineMessage
ClientSendFailed ==
    /\ CanFail
    /\ callH.pc = "post"
    /\ failures' = failures + 1
    /\ offlineMessages' = Append(offlineMessages,
          Queued(callH.localMessageId, callH.conversationId))
    /\ callH' = IdleCall
    /\ UNCHANGED <<now, dbVars, connectedUsers, sockVars, handlerVars, wire,
                   submitted, reads>>
    /\ UNCHANGED <<socket, clientSock, reconnectAttempts, timers, initH,
                   flushH, saved, nextLocal>>

\* the for loop of sendOfflineMessages moves on; after the last message
\* localStorage.setItem("offlineMessages", "[]")
FlushAdvance(s) ==
    IF flushH[s].i < Len(flushH[s].offlineMessages)
    THEN /\ flushH' = [flushH EXCEPT ![s].pc = "post", ![s].i = @ + 1]
         /\ UNCHANGED offlineMessages
    ELSE /\ flushH' = [flushH EXCEPT ![s] = IdleFlush]
         /\ offlineMessages' = <<>>

\* the route handles the POST of the flush started by socket s
FlushPost(s) ==
    /\ flushH[s].pc = "post"
    /\ PostRequest(ClientUser,
          flushH[s].offlineMessages[flushH[s].i].conversationId)
    /\ flushH' = [flushH EXCEPT ![s].pc = "emit"]
    /\ saved' = saved \cup
          {flushH[s].offlineMessages[flushH[s].i].localMessageId}
    /\ UNCHANGED <<socket, clientSock, reconnectAttempts, timers, initH,
                   offlineMessages, callH, nextLocal>>

\* the fetch has settled: socket.emit("send-message", message) on the
\* singleton (a TypeError of a null singleton is caught), next message
FlushEmit(s) ==
    /\ flushH[s].pc = "emit"
    /\ IF socket # None /\ Connected(socket)
       THEN SendMessageEvent(socket,
               flushH[s].offlineMessages[flushH[s].i].conversationId)
       ELSE UNCHANGED serverVars
    /\ FlushAdvance(s)
    /\ UNCHANGED <<socket, clientSock, reconnectAttempts, timers, initH,
                   callH, saved, nextLocal>>

\* the POST of the flush is not stored (the fetch rejects and is caught,
\* or the response is not ok and is not looked at), next message
FlushFailed(s) ==
    /\ CanFail
    /\ flushH[s].pc = "post"
    /\ failures' = failures + 1
    /\ FlushAdvance(s)
    /\ UNCHANGED <<now, dbVars, connectedUsers, sockVars, handlerVars, wire,
                   submitted, reads>>
    /\ UNCHANGED <<socket, clientSock, reconnectAttempts, timers, initH,
                   callH, saved, nextLocal>>

\* ---------------------------------------------------------------- client scenarios
\* the page mounts and the user presses reconnect while the server accepts,
\* refuses and loses the client's sockets
NextClient ==
    \/ \E k \in Callers : InitializeSocket(k) \/ SocketCreated(k)
    \/ \E s \in ClientSockets :
          \/ SocketAccepted(s) \/ SocketConnect(s) \/ SocketConnectError(s)
          \/ SocketDropped(s) \/ DisconnectUserUpdate(s) \/ DisconnectDelete(s)
          \/ OnlineUserUpdate(s) \/ OnlineRegister(s)
    \/ ReconnectTimer

SpecClient == Init /\ [][NextClient]_vars

\* the page mounts, the socket connects and announces the user; the user
\* sends through sendMessage while the server handles what the client emits
NextCall ==
    \/ InitializeSocket("effect") \/ SocketCreated("effect")
    \/ \E s \in ClientSockets :
          \/ SocketAccepted(s) \/ SocketConnect(s)
          \/ OnlineUserUpdate(s) \/ OnlineRegister(s) \/ OnlineFindMany(s)
          \/ SendCreateMessage(s) \/ SendTouchConversation(s)
          \/ SendMapParticipants(s) \/ SendCreateStatus(s) \/ SendBroadcast(s)
    \/ \E c \in Conversations : ClientSendMessage(c)
    \/ ClientSendPost \/ ClientSendSaved

SpecCall == Init /\ [][NextCall]_vars

\* the page is loaded with one message of an earlier session of bob in the
\* offline queue; nobody is connected and nothing is stored
InitQueued ==
    /\ now = 1
    /\ messages = <<>>
    /\ statusRows = {}
    /\ nextRowId = 0
    /\ updatedAt = [c \in Conversations |-> Null]
    /\ userRow = [u \in Users |->
                    [isOnline |-> FALSE, socketId |-> None, lastSeen |-> Null]]
    /\ connectedUsers = [u \in Users |-> None]
    /\ sockState = [s \in Sockets |-> "new"]
    /\ socketData = [s \in Sockets |-> None]
    /\ rooms = [s \in Sockets |-> {}]
    /\ sendH = [s \in Sockets |-> IdleSend]
    /\ onlineH = [s \in Sockets |-> IdleOnline]
    /\ readH = [s \in Sockets |-> IdleRead]
    /\ discH = [s \in Sockets |-> IdleDisc]
    /\ wire = <<>>
    /\ submitted = <<>>
    /\ failures = 0
    /\ reads = 0
    /\ socket = None
    /\ clientSock = [s \in Sockets |-> "none"]
    /\ reconnectAttempts = 0
    /\ timers = 0
    /\ initH = [k \in Callers |-> "idle"]
    /\ \E c \in Conversations :
          /\ [userId |-> ClientUser, conversationId |-> c] \in Participant
          /\ offlineMessages = << Queued(1, c) >>
    /\ callH = IdleCall
    /\ flushH = [s \in Sockets |-> IdleFlush]
    /\ saved = {}
    /\ nextLocal = 1

\* the socket connects and the queue is flushed while the user sends; a
\* POST may fail
NextOutbox ==
    \/ InitializeSocket("effect") \/ SocketCreated("effect")
    \/ \E s \in ClientSockets :
          \/ SocketAccepted(s) \/ SocketConnect(s)
          \/ FlushPost(s) \/ FlushEmit(s) \/ FlushFailed(s)
    \/ \E c \in Conversations : ClientSendMessage(c)
    \/ ClientSendPost \/ ClientSendSaved \/ ClientSendFailed

SpecOutbox == InitQueued /\ [][NextOutbox]_vars

\* ---------------------------------------------------------------- claims
StatusRank(status) ==
    IF status = "sent" THEN 1 ELSE IF status = "delivered" THEN 2 ELSE 3

\* the events of one type on the wire, as indices into wire
Emitted(type) == { i \in DOMAIN wire : wire[i].type = type }

\* the events a step appended to the wire
Appended == SubSeq(wire', Len(wire) + 1, Len(wire'))

\* how often message m is listed in a sequence of message ids
Occurrences(m, ids) == Cardinality({ k \in DOMAIN ids : ids[k] = m })

\* C1: no step of any handler moves the status of a MessageStatus row
\* backwards along sent -> delivered -> read.
C1_StatusNeverRegresses ==
    [][ \A r \in statusRows : \A q \in statusRows' :
           q.id = r.id => StatusRank(q.status) >= StatusRank(r.status) ]_vars

\* C7: the messages of every undelivered-messages batch are listed in
\* creation order: ascending createdAt, ties in insertion (id) order.
C7_BatchInCreationOrder ==
    \A i \in Emitted("undelivered-messages") :
       \A j, k \in DOMAIN wire[i].messageIds :
          j < k =>
             LET a == Message(wire[i].messageIds[j])
                 b == Message(wire[i].messageIds[k])
             IN \/ a.createdAt < b.createdAt
                \/ a.createdAt = b.createdAt /\ a.id < b.id

\* C10: concurrent replays (and mark-read) of one user never both deliver a
\* row: each message is listed in at most one undelivered-messages batch
\* and in at most one messages-delivered notification.
C10_DeliveredByOneReplay ==
    \A m \in DOMAIN messages :
       /\ Cardinality({ i \in Emitted("undelivered-messages") :
                          m \in Range(wire[i].messageIds) }) <= 1
       /\ Cardinality({ i \in Emitted("messages-delivered") :
                          m \in Range(wire[i].messageIds) }) <= 1

\* the MessageStatus rows of message m
RowsOf(m) == { r \in statusRows : r.messageId = m }

\* the members of the conversation of message m, from the Participant table
MembersOf(m) ==
    { p.userId : p \in { q \in Participant :
                           q.conversationId = Message(m).conversationId } }

\* C4: no (message, user) pair has more than one status row, no row belongs
\* to a user who is not a participant of the message's conversation, and
\* once a send-message has completed (its message-sent ack is emitted)
\* every participant of the conversation has exactly one row for it.
C4_OneRowPerParticipant ==
    /\ \A r \in statusRows :
          /\ r.messageId \in DOMAIN messages
          /\ r.userId \in MembersOf(r.messageId)
          /\ Cardinality({ q \in RowsOf(r.messageId) : q.userId = r.userId }) = 1
    /\ \A i \in Emitted("message-sent") :
          \A u \in MembersOf(wire[i].messageIds[1]) :
             Cardinality({ q \in RowsOf(wire[i].messageIds[1]) :
                             q.userId = u }) = 1

\* two send-message events completed, one of them for a message of c1
C4_Witness ==
    /\ Cardinality(Emitted("message-sent")) = 2
    /\ \E i \in Emitted("message-sent") :
          /\ Message(wire[i].messageIds[1]).conversationId = "c1"
          /\ { r.userId : r \in RowsOf(wire[i].messageIds[1]) } = {"alice", "bob"}

\* C5: a persisted Message never exists without the status rows of all the
\* participants of its conversation, in any state, also between the awaits
\* of send-message and after a failed persistence call.
C5_RowsAtomicWithMessage ==
    \A m \in DOMAIN messages :
       { r.userId : r \in RowsOf(m) } = MembersOf(m)

\* the position of correlation id x in the order of submission
RECURSIVE PositionIn(_, _)
PositionIn(x, q) ==
    IF q = <<>> THEN 0
    ELSE IF q[Len(q)] = x THEN Len(q)
    ELSE PositionIn(x, SubSeq(q, 1, Len(q) - 1))

\* C6: two new-message broadcasts of one conversation that reach a common
\* socket are emitted in the order in which their send-message events
\* were handled.
C6_BroadcastInSubmissionOrder ==
    \A i, j \in Emitted("new-message") :
       ( /\ i < j
         /\ wire[i].conversationId = wire[j].conversationId
         /\ wire[i].to \cap wire[j].to # {} )
       => PositionIn(wire[i].localMessageId, submitted)
             < PositionIn(wire[j].localMessageId, submitted)

\* the step in which the replay query of socket s returns
ReplayQueried(s) ==
    /\ onlineH[s].pc = "find"
    /\ onlineH'[s].pc \in {"update", "done"}
    /\ failures' = failures

\* the step in which the replay's updateMany of socket s is applied
ReplayUpdated(s) == onlineH[s].pc = "update" /\ onlineH'[s].pc = "emit"

\* the step in which the replay of socket s emits its events
ReplayEmitted(s) == onlineH[s].pc = "emit" /\ onlineH'[s].pc = "done"

\* the messages the replay of socket s selected
Selected(h) == Range(MessageIds(h.undeliveredMessages))

\* user u was a recipient of message m and had no registry entry when the
\* statuses of m were computed: the row of u was, or will be, created sent
SentWhileOffline(m, u) ==
    /\ u \in MembersOf(m)
    /\ Message(m).senderId # u
    /\ \/ \E r \in RowsOf(m) : r.userId = u /\ r.deliveredAt = Null
       \/ \E s \in Sockets : \E r \in sendH[s].pending :
             r.messageId = m /\ r.userId = u /\ r.status = "sent"

\* every message the replay of s selected is listed once, in one batch
\* that carries the message's conversation
ListedOnce(s) ==
    \A m \in Selected(onlineH[s]) :
       /\ Cardinality({ k \in DOMAIN Appended :
             /\ Appended[k].type = "undelivered-messages"
             /\ m \in Range(Appended[k].messageIds) }) = 1
       /\ \A k \in DOMAIN Appended :
             ( /\ Appended[k].type = "undelivered-messages"
               /\ m \in Range(Appended[k].messageIds) )
             => /\ Occurrences(m, Appended[k].messageIds) = 1
                /\ Appended[k].conversationId = Message(m).conversationId

MissedPush(i, u) ==
    LET m == wire[i].messageIds[1]
    IN /\ u \in MembersOf(m)
       /\ Message(m).senderId # u
       /\ \E r \in RowsOf(m) : r.userId = u /\ r.deliveredAt # Null
       /\ ~ \E s \in wire[i].to : SocketOwner[s] = u

\* C3: a message whose new-message push reached no socket of a recipient
\* that was online at the status check is selected by the replay query of
\* the recipient's next user-online.
C3_MissedPushReplayed ==
    [][ \A s \in Sockets :
          ReplayQueried(s) =>
             \A i \in Emitted("new-message") :
                MissedPush(i, onlineH[s].userId)
                   => wire[i].messageIds[1] \in Selected(onlineH'[s]) ]_vars

\* the step in which the disconnect handler of s deletes the registry entry
DisconnectDeleted(s) == discH[s].pc = "delete" /\ discH'[s].pc = "done"

\* C8: the disconnect of a socket that is not the one registered for its
\* user leaves the user's registry entry as it is.
C8_StaleDisconnectKeepsEntry ==
    [][ \A s \in Sockets :
          ( /\ DisconnectDeleted(s)
            /\ connectedUsers[discH[s].userId] # None
            /\ connectedUsers[discH[s].userId] # s )
          => connectedUsers'[discH[s].userId]
                = connectedUsers[discH[s].userId] ]_vars

\* the sender of the messages a notification is about
NoticeFor(e) == Message(e.messageIds[1]).senderId

C11_MarkDeliveredIdempotent ==
    [][ \A s \in Sockets :
          ReplayUpdated(s) =>
             \A r \in statusRows :
                r.status \in {"delivered", "read"} => r \in statusRows' ]_vars

\* C12: a deliveredAt or readAt that has been written is never written
\* again with another value by any later step of any handler.
C12_TimestampsWrittenOnce ==
    [][ \A r \in statusRows : \A q \in statusRows' :
           q.id = r.id =>
              /\ r.deliveredAt # Null => q.deliveredAt = r.deliveredAt
              /\ r.readAt # Null => q.readAt = r.readAt ]_vars

\* the row is the one of the sender of its message
OwnRow(r) == r.userId = Message(r.messageId).senderId

\* the row is as the sender's row is created: sent, no timestamps
Untouched(r) ==
    r.status = "sent" /\ r.deliveredAt = Null /\ r.readAt = Null

\* C13: the sender's own row is created sent without timestamps and stays
\* so; the user's replay and mark-messages-read never select it, and no
\* replay batch, delivered notice or read notice of a user lists a message
\* that user sent.
C13_SenderRowStaysSent ==
    /\ \A r \in statusRows : OwnRow(r) => Untouched(r)
    /\ \A s \in Sockets :
          /\ \A r \in sendH[s].pending : OwnRow(r) => Untouched(r)
          /\ \A m \in Selected(onlineH[s]) :
                Message(m).senderId # onlineH[s].userId
          /\ \A m \in Range(MessageIds(readH[s].unreadMessages)) :
                Message(m).senderId # readH[s].userId
    /\ \A i \in DOMAIN wire : \A m \in Range(wire[i].messageIds) :
          /\ wire[i].type = "undelivered-messages"
                => \A s \in wire[i].to : Message(m).senderId # SocketOwner[s]
          /\ wire[i].type \in {"messages-delivered", "messages-read"}
                => Message(m).senderId # wire[i].userId

\* bob's send-message was acknowledged, a later replay of bob listed a
\* message of alice, bob has read a message of alice, and bob's own row is
\* still as it was created
C13_Witness ==
    \E i \in Emitted("message-sent") : \E j \in Emitted("undelivered-messages") :
       /\ i < j
       /\ Message(wire[i].messageIds[1]).senderId = "bob"
       /\ wire[j].to = {"s2"}
       /\ \E r \in RowsOf(wire[i].messageIds[1]) : r.userId = "bob" /\ Untouched(r)
       /\ \E r \in statusRows : r.userId = "bob" /\ r.status = "read"

\* the row of a recipient follows the registry entry the recipient has
FollowsRegistry(r) ==
    IF connectedUsers[r.userId] # None
    THEN r.status = "delivered" /\ r.deliveredAt # Null
    ELSE r.status = "sent" /\ r.deliveredAt = Null

\* C14: when the rows of a new message are computed (by the participants
\* map of send-message, or by the POST route), the row of every non-sender
\* is delivered with deliveredAt set exactly when the user has a registry
\* entry at that moment, and sent without deliveredAt otherwise.
C14_StatusFromRegistry ==
    [][ /\ \A s \in Sockets :
              (sendH[s].pc = "participants" /\ sendH'[s].pc = "rows")
                 => \A r \in sendH'[s].pending :
                       r.userId # SocketOwner[s] => FollowsRegistry(r)
        /\ Len(messages') > Len(messages)
              => \A r \in statusRows' \ statusRows :
                    r.userId # messages'[r.messageId].senderId
                       => FollowsRegistry(r) ]_vars

\* the events of a send-message that carry correlation id k
EventsOf(k) ==
    { i \in DOMAIN wire :
        /\ wire[i].type \in {"new-message", "message-sent", "message-error"}
        /\ wire[i].localMessageId = k }

\* a persistence call of the send-message handler of socket s rejects
SendRejected(s) == failures' = failures + 1 /\ sendH'[s] # sendH[s]

C16_NonParticipantRejected ==
    /\ \A m \in DOMAIN messages : Message(m).senderId \in MembersOf(m)
    /\ \A i \in Emitted("new-message") :
          wire[i].userId \in
             { p.userId : p \in { q \in Participant :
                                    q.conversationId = wire[i].conversationId } }

\* the send-message handler of socket s finishes without a rejection
SendCompleted(s) ==
    sendH[s].pc = "rows" /\ ~sendH[s].failed /\ sendH'[s].pc = "idle"

\* C17: a new-message is on the wire only when its message and the rows of
\* all participants are stored, it is followed at once by the one
\* message-sent of that message, which carries the stored message's id and
\* goes to the submitting socket only; no message-sent comes without the
\* broadcast before it, and a handler that completes emits both.
C17_CreatedRowsBroadcastAck ==
    /\ [] ( /\ \A i \in Emitted("new-message") :
                 LET m == wire[i].messageIds[1]
                 IN /\ m \in DOMAIN messages
                    /\ { r.userId : r \in RowsOf(m) } = MembersOf(m)
                    /\ i + 1 \in Emitted("message-sent")
                    /\ wire[i + 1].messageIds = <<m>>
                    /\ wire[i + 1].localMessageId = wire[i].localMessageId
            /\ \A j \in Emitted("message-sent") :
                 /\ j - 1 \in Emitted("new-message")
                 /\ \A k \in Emitted("message-sent") :
                       wire[k].messageIds = wire[j].messageIds => k = j )
    /\ [][ \A s \in Sockets :
             /\ SendCompleted(s) =>
                   /\ Len(Appended) = 2
                   /\ Appended[1].type = "new-message"
                   /\ Appended[2].type = "message-sent"
                   /\ Appended[2].messageIds = <<sendH[s].message>>
                   /\ Appended[2].to \subseteq {s}
             /\ (sendH'[s] = sendH[s] \/ ~SendCompleted(s)) =>
                   \A k \in DOMAIN Appended :
                      Appended[k].type \in {"new-message", "message-sent"}
                         => \E z \in Sockets \ {s} : SendCompleted(z) ]_vars

\* bob's message reached the room of both sockets and was then
\* acknowledged to bob's socket alone
C17_Witness ==
    \E i \in Emitted("new-message") :
       /\ wire[i].to = {"s1", "s2"}
       /\ wire[i].userId = "bob"
       /\ wire[i + 1].type = "message-sent"
       /\ wire[i + 1].to = {"s2"}
       /\ Cardinality(RowsOf(wire[i].messageIds[1])) = 2

ReadQueried(s) ==
    /\ readH[s].pc = "find"
    /\ readH'[s].pc \in {"update", "idle"}
    /\ failures' = failures

\* the step in which the mark-read updateMany of socket s is applied
ReadUpdated(s) == readH[s].pc = "update" /\ readH'[s].pc = "emit"

\* row r is one mark-messages-read(conversationId, userId) is about
Markable(r, userId, conversationId) ==
    /\ r.userId = userId
    /\ Message(r.messageId).conversationId = conversationId
    /\ Message(r.messageId).senderId # userId

ReadEmitted(s) == readH[s].pc = "emit" /\ readH'[s].pc = "idle"

\* the messages-read event e is the one owed to sender u by the
\* mark-messages-read of handler state h
NoticeTo(e, u, h) ==
    /\ e.type = "messages-read"
    /\ e.to \subseteq {connectedUsers[u]}
    /\ e.userId = h.userId
    /\ e.conversationId = h.conversationId
    /\ Range(e.messageIds) =
          { m \in Range(MessageIds(h.unreadMessages)) : Message(m).senderId = u }
    /\ \A m \in Range(e.messageIds) : Occurrences(m, e.messageIds) = 1

\* C20: a mark-messages-read that updated rows emits, for every distinct
\* sender of the updated messages who is in the registry, exactly one
\* messages-read with that sender's message ids, readBy and the
\* conversation id, and nothing else; one that finds no row emits nothing;
\* and messages-read is emitted by no other step.
C20_OneReadNoticePerSender ==
    [][ /\ \A s \in Sockets :
             /\ ReadEmitted(s) =>
                   LET h == readH[s]
                       senders == { Message(m).senderId :
                                      m \in Range(MessageIds(h.unreadMessages)) }
                       known == { u \in senders : connectedUsers[u] # None }
                   IN /\ Len(Appended) = Cardinality(known)
                      /\ \A u \in known :
                            Cardinality({ k \in DOMAIN Appended :
                                            NoticeTo(Appended[k], u, h) }) = 1
             /\ (ReadQueried(s) /\ readH'[s].pc = "idle") => Appended = <<>>
        /\ \A k \in DOMAIN Appended :
             Appended[k].type = "messages-read"
                => \E s \in Sockets : ReadEmitted(s) ]_vars

\* bob's only mark-messages-read was for c2, where messages of carol (not
\* in the registry) and of alice (registered through s1) were unread: one
\* messages-read went to alice's socket, listing her message only
C20_Witness ==
    /\ reads = 1
    /\ Cardinality(Emitted("messages-read")) = 1
    /\ \E i \in Emitted("messages-read") :
          /\ wire[i].to = {"s1"}
          /\ wire[i].userId = "bob"
          /\ wire[i].conversationId = "c2"
          /\ Len(wire[i].messageIds) = 1
          /\ \E r \in statusRows :
                /\ r.userId = "bob" /\ r.status = "read"
                /\ Message(r.messageId).senderId = "carol"
                /\ r.readAt # Null
    /\ \A r \in statusRows : r.userId = "bob" => r.status = "read"

\* the messages-delivered event e is the one owed to sender u by the replay
\* of handler state h
DeliveredTo(e, u, h) ==
    /\ e.type = "messages-delivered"
    /\ e.to \subseteq {connectedUsers[u]}
    /\ e.userId = h.userId
    /\ Range(e.messageIds) = { m \in Selected(h) : Message(m).senderId = u }
    /\ \A m \in Range(e.messageIds) : Occurrences(m, e.messageIds) = 1

\* C21: the emitting step of a replay appends, for every distinct sender of
\* the replayed messages who has a registry entry at that moment, exactly
\* one messages-delivered whose messageIds are that sender's replayed
\* messages and whose deliveredTo is the reconnecting user; it appends none
\* for a sender without an entry; and no other step emits messages-delivered.
C21_OneDeliveredNoticePerSender ==
    [][ /\ \A s \in Sockets :
             ReplayEmitted(s) =>
                LET h == onlineH[s]
                    senders == { Message(m).senderId : m \in Selected(h) }
                    known == { u \in senders : connectedUsers[u] # None }
                    notices == { k \in DOMAIN Appended :
                                   Appended[k].type = "messages-delivered" }
                IN /\ Selected(h) # {}
                   /\ Cardinality(notices) = Cardinality(known)
                   /\ \A u \in known :
                         Cardinality({ k \in notices :
                                         DeliveredTo(Appended[k], u, h) }) = 1
        /\ \A k \in DOMAIN Appended :
             Appended[k].type = "messages-delivered"
                => \E s \in Sockets : ReplayEmitted(s) ]_vars

\* bob's only replay, through s2, delivered a message of alice, who is
\* registered through s1, and a message of carol, who has no entry: the one
\* messages-delivered went to s1 and lists alice's message only
C21_Witness ==
    /\ onlineH["s2"].pc = "done"
    /\ onlineH["s3"].pc = "idle"
    /\ Cardinality(Emitted("messages-delivered")) = 1
    /\ \E i \in Emitted("messages-delivered") :
          /\ wire[i].to = {"s1"}
          /\ wire[i].userId = "bob"
          /\ Len(wire[i].messageIds) = 1
          /\ Message(wire[i].messageIds[1]).senderId = "alice"
    /\ \E j \in Emitted("undelivered-messages") :
          \E m \in Range(wire[j].messageIds) :
             /\ Message(m).senderId = "carol"
             /\ \E r \in RowsOf(m) : r.userId = "bob" /\ r.deliveredAt # Null

\* the undelivered-messages event e is the batch of conversation c of the
\* replay of socket s
BatchOf(e, c, s) ==
    /\ e.type = "undelivered-messages"
    /\ e.to \subseteq {s}
    /\ e.conversationId = c
    /\ Range(e.messageIds) =
          { m \in Selected(onlineH[s]) : Message(m).conversationId = c }
    /\ \A m \in Range(e.messageIds) : Occurrences(m, e.messageIds) = 1

\* C22: the replay query of a user-online returns exactly the rows of that
\* user that are sent and whose message the user did not author, each once;
\* when it returns none the handler ends without emitting; otherwise the
\* emitting step appends exactly one undelivered-messages per conversation
\* of the selected messages, holding exactly that conversation's selected
\* messages; and no other step emits undelivered-messages.
C22_OneBatchPerConversation ==
    [][ /\ \A s \in Sockets :
             /\ ReplayQueried(s) =>
                   LET q == RowIds(onlineH'[s].undeliveredMessages)
                       found == onlineH'[s].undeliveredMessages
                   IN /\ q = { r.id : r \in { x \in statusRows :
                                  /\ x.userId = onlineH[s].userId
                                  /\ x.status = "sent"
                                  /\ Message(x.messageId).senderId
                                        # onlineH[s].userId } }
                      /\ Len(found) = Cardinality(q)
                      /\ \A i \in DOMAIN found : \E r \in statusRows :
                            r.id = found[i].id /\ r.messageId = found[i].messageId
                      /\ (q = {}) <=> (onlineH'[s].pc = "done")
                      /\ Appended = <<>>
             /\ ReplayEmitted(s) =>
                   LET convs == { Message(m).conversationId :
                                    m \in Selected(onlineH[s]) }
                       batches == { k \in DOMAIN Appended :
                                      Appended[k].type = "undelivered-messages" }
                   IN /\ Cardinality(batches) = Cardinality(convs)
                      /\ \A c \in convs :
                            Cardinality({ k \in batches :
                                            BatchOf(Appended[k], c, s) }) = 1
        /\ \A k \in DOMAIN Appended :
             Appended[k].type = "undelivered-messages"
                => \E s \in Sockets : ReplayEmitted(s) ]_vars

\* bob's replay through s2 ran while a message he authored and a message
\* of alice were stored with his rows sent: the one batch went to s2 and
\* holds alice's message only, and bob's row for his own message is sent
C22_Witness ==
    /\ onlineH["s2"].pc = "done"
    /\ Cardinality(Emitted("undelivered-messages")) = 1
    /\ \E i \in Emitted("undelivered-messages") :
          /\ wire[i].to = {"s2"}
          /\ Len(wire[i].messageIds) = 1
          /\ Message(wire[i].messageIds[1]).senderId = "alice"
          /\ Message(wire[i].messageIds[1]).conversationId = wire[i].conversationId
          /\ \E r \in statusRows :
                /\ r.userId = "bob"
                /\ r.messageId < wire[i].messageIds[1]
                /\ Message(r.messageId).senderId = "bob"
                /\ r.status = "sent"

\* the handler states of socket s
HandlersOf(s) == <<sendH[s], onlineH[s], readH[s], discH[s]>>

\* C23: a step in which a persistence call of a handler of socket s rejects
\* is taken by the catch of that handler: the handler ends (or, in
\* send-message, waits for the creates still in flight), the only event it
\* may emit is a message-error to s, no socket is closed, no handler of
\* another socket is disturbed, and the registry, the User rows, the
\* messages and the status rows are left as they were.
C23_FailureContained ==
    [][ failures' # failures =>
          /\ connectedUsers' = connectedUsers
          /\ statusRows' = statusRows
          /\ userRow' = userRow
          /\ messages' = messages
          /\ sockVars' = sockVars
          /\ \E s \in Sockets :
                /\ HandlersOf(s)' # HandlersOf(s)
                /\ \A z \in Sockets \ {s} : HandlersOf(z)' = HandlersOf(z)
                /\ \/ sendH'[s] = IdleSend
                   \/ sendH'[s].failed
                   \/ sendH'[s] = sendH[s]
                /\ onlineH'[s].pc \in {onlineH[s].pc, "done"}
                /\ readH'[s] \in {readH[s], IdleRead}
                /\ discH'[s].pc \in {discH[s].pc, "done"}
                /\ \A k \in DOMAIN Appended :
                      /\ Appended[k].type = "message-error"
                      /\ Appended[k].to \subseteq {s} ]_vars

\* the send-message of bob's socket failed and got its message-error; after
\* that the user-online of the same socket replayed alice's message, and
\* alice's registry entry and her row are as they were
C23_Witness ==
    /\ failures = 1
    /\ connectedUsers["alice"] = "s1"
    /\ \E r \in statusRows :
          r.messageId = 1 /\ r.userId = "alice" /\ r.status = "sent"
    /\ \E i \in Emitted("message-error") :
          /\ wire[i].to = {"s2"}
          /\ \E j \in Emitted("undelivered-messages") :
                i < j /\ wire[j].to = {"s2"} /\ wire[j].messageIds = <<1>>

\* C24: in every state, the conversation of every stored Message has been
\* bumped at or after the message's creation, and every bumped conversation
\* holds a message.
C24_BumpedWithMessage ==
    /\ \A m \in DOMAIN messages :
          /\ updatedAt[Message(m).conversationId] # Null
          /\ updatedAt[Message(m).conversationId] >= Message(m).createdAt
    /\ \A c \in Conversations :
          updatedAt[c] # Null
             => \E m \in DOMAIN messages : Message(m).conversationId = c

\* the presence of user u: the User row's isOnline, socketId and lastSeen
\* and the registry entry
Presence(u) == <<userRow[u], connectedUsers[u]>>

\* C25: a step that changes a user's isOnline, socketId or registry entry
\* is a step of a user-online handler or of a disconnect handler announced
\* for that user; a step that changes lastSeen is the user.update of a
\* disconnect handler of that user; so the steps of send-message,
\* mark-messages-read, join-conversation and leave-conversation change the
\* presence of no user.
C25_PresenceFrame ==
    [][ /\ \A u \in Users :
             /\ Presence(u)' # Presence(u) =>
                   \E s \in Sockets :
                      \/ onlineH'[s] # onlineH[s] /\ onlineH[s].userId = u
                      \/ discH'[s] # discH[s] /\ discH[s].userId = u
             /\ userRow'[u].lastSeen # userRow[u].lastSeen =>
                   \E s \in Sockets :
                      /\ discH[s].pc = "user" /\ discH'[s].pc = "delete"
                      /\ discH[s].userId = u
        /\ ( \/ sendH' # sendH
             \/ readH' # readH
             \/ \E s \in Sockets : sockState'[s] = "open" /\ rooms'[s] # rooms[s] )
           => \A u \in Users : Presence(u)' = Presence(u) ]_vars

\* bob, registered through s2, has joined a room, sent message 2 and marked
\* c1 read; his User row and registry entry are those user-online wrote,
\* and alice's are untouched
C25_Witness ==
    /\ rooms["s2"] # {}
    /\ \E i \in Emitted("message-sent") : wire[i].to = {"s2"}
    /\ \E j \in Emitted("messages-read") : wire[j].userId = "bob"
    /\ connectedUsers["bob"] = "s2"
    /\ userRow["bob"] = [isOnline |-> TRUE, socketId |-> "s2", lastSeen |-> Null]
    /\ connectedUsers["alice"] = "s1"
    /\ userRow["alice"] = [isOnline |-> TRUE, socketId |-> "s1", lastSeen |-> Null]

\* no handler of socket s is running
Quiescent(s) ==
    /\ sendH[s] = IdleSend
    /\ onlineH[s].pc \in {"idle", "done"}
    /\ readH[s] = IdleRead
    /\ discH[s].pc \in {"idle", "done"}

\* C26: once socket s has dropped, its disconnect has been handled and no
\* handler of s is running any more, no registry entry holds s.
C26_DroppedSocketUnregistered ==
    \A s \in Sockets :
       ( /\ sockState[s] = "closed"
         /\ discH[s].pc = "done"
         /\ Quiescent(s) )
       => \A u \in Users : connectedUsers[u] # s

\* C27: for every new-message broadcast, every participant other than the
\* sender whose row of that message is delivered (in SpecRooms: was created
\* delivered) owns a socket the broadcast was delivered to.
C27_DeliveredAtCreationReached ==
    \A i \in Emitted("new-message") :
       LET m == wire[i].messageIds[1]
       IN \A r \in RowsOf(m) :
             ( /\ r.userId # Message(m).senderId
               /\ r.status = "delivered" )
             => \E s \in wire[i].to : SocketOwner[s] = r.userId

\* C28: when a replay that has set its selected rows to delivered emits,
\* every selected message is in an undelivered-messages batch that is
\* delivered to the reconnecting socket.
C28_ReplayedRowsPushed ==
    [][ \A s \in Sockets :
          ReplayEmitted(s) =>
             \A m \in Selected(onlineH[s]) :
                \E k \in DOMAIN Appended :
                   /\ Appended[k].type = "undelivered-messages"
                   /\ m \in Range(Appended[k].messageIds)
                   /\ s \in Appended[k].to ]_vars

\* the user-status-change events broadcast for user u, as indices into wire
StatusChanges(u) ==
    { i \in Emitted("user-status-change") : wire[i].userId = u }

\* C29: in every state, and so whenever all handlers have finished, the
\* last user-status-change broadcast for a user says isOnline true exactly
\* when the registry holds an entry for that user; a user for whom nothing
\* was broadcast has no entry.
C29_LastStatusMatchesRegistry ==
    \A u \in Users :
       IF StatusChanges(u) = {}
       THEN connectedUsers[u] = None
       ELSE LET last == CHOOSE i \in StatusChanges(u) :
                           \A j \in StatusChanges(u) : j <= i
            IN wire[last].flag <=> connectedUsers[u] # None

\* bob's new socket s3 registered before the disconnect of his old socket
\* s2 was handled; all handlers have finished: the last broadcast for bob
\* says offline and the registry has no entry for him, while s3 is open
C29_Witness ==
    /\ sockState["s2"] = "closed" /\ discH["s2"].pc = "done"
    /\ sockState["s3"] = "open" /\ onlineH["s3"].pc = "done"
    /\ onlineH["s2"].pc = "done"
    /\ connectedUsers["bob"] = None
    /\ \E i, j \in StatusChanges("bob") :
          /\ i < j
          /\ wire[i].flag /\ "s2" \notin wire[i].to
          /\ ~wire[j].flag /\ "s3" \in wire[j].to
          /\ \A k \in StatusChanges("bob") : k <= j

\* a step of the replay of socket s: its query, its update or its emit
ReplayStep(s) == ReplayQueried(s) \/ ReplayUpdated(s) \/ ReplayEmitted(s)

\* C30: the step that connects a socket changes no row and emits nothing;
\* every replay step of a socket belongs to a user-online handler of that
\* socket that has already registered the announced user; every
\* undelivered-messages batch is emitted by such a handler, to its own
\* socket, with messages that have a row of the announced user; and a row
\* goes from sent to delivered only in the update of such a handler that
\* selected it, and only if it is a row of the announced user.
C30_ReplayOnlyInUserOnline ==
    [][ /\ \A s \in Sockets :
             /\ (sockState[s] = "new" /\ sockState'[s] = "open") =>
                   /\ statusRows' = statusRows
                   /\ wire' = wire
                   /\ onlineH' = onlineH
             /\ ReplayStep(s) =>
                   /\ sockState[s] # "new"
                   /\ onlineH[s].userId # None
                   /\ socketData[s] = onlineH[s].userId
        /\ \A k \in DOMAIN Appended :
             Appended[k].type = "undelivered-messages" =>
                \E s \in Sockets :
                   /\ ReplayEmitted(s)
                   /\ Appended[k].to \subseteq {s}
                   /\ \A m \in Range(Appended[k].messageIds) :
                         \E r \in RowsOf(m) : r.userId = onlineH[s].userId
        /\ \A r \in statusRows : \A q \in statusRows' :
             (q.id = r.id /\ r.status = "sent" /\ q.status = "delivered") =>
                \E s \in Sockets :
                   /\ ReplayUpdated(s)
                   /\ r.id \in RowIds(onlineH[s].undeliveredMessages)
                   /\ r.userId = onlineH[s].userId ]_vars

\* alice's message is stored and acknowledged, bob's row is sent, and bob's
\* socket s2 has connected without announcing a user: nothing was replayed
C30_Witness ==
    /\ sockState["s2"] = "open"
    /\ onlineH["s2"].pc = "idle"
    /\ socketData["s2"] = None
    /\ Emitted("undelivered-messages") = {}
    /\ \E i \in Emitted("message-sent") :
          \E r \in RowsOf(wire[i].messageIds[1]) :
             r.userId = "bob" /\ r.status = "sent"

\* row q of the next state is row r of this state, possibly updated
SameRow(r, q) ==
    q.id = r.id /\ q.messageId = r.messageId /\ q.userId = r.userId

\* C31: no step removes a status row or changes a stored Message; a step
\* of send-message leaves every existing row as it is; a step of
\* mark-messages-read changes nothing of a row but status, to read, and
\* readAt; a step of disconnect changes no row; and an existing row is set
\* to delivered only by the update of a user-online replay.
C31_RowsAndMessagesFrame ==
    [][ /\ \A r \in statusRows : \E q \in statusRows' : SameRow(r, q)
        /\ \A m \in DOMAIN messages :
              m \in DOMAIN messages' /\ messages'[m] = messages[m]
        /\ sendH' # sendH => statusRows \subseteq statusRows'
        /\ readH' # readH =>
              \A r \in statusRows : \A q \in statusRows' :
                 SameRow(r, q) =>
                    \/ q = r
                    \/ q = [r EXCEPT !.status = "read", !.readAt = q.readAt]
        /\ discH' # discH => statusRows' = statusRows
        /\ \A r \in statusRows : \A q \in statusRows' :
              (SameRow(r, q) /\ q.status = "delivered" /\ q # r)
                 => \E s \in Sockets : ReplayUpdated(s) ]_vars

\* bob's socket has sent message 2, marked alice's message read and
\* dropped, and its disconnect was handled: alice's message is as stored,
\* her own row is as created, and bob's row of it differs only in status
\* and readAt
C31_Witness ==
    /\ discH["s2"].pc = "done" /\ sockState["s2"] = "closed"
    /\ \E i \in Emitted("message-sent") : wire[i].messageIds = <<2>>
    /\ Message(1) = [ id |-> 1, conversationId |-> "c1", senderId |-> "alice",
                      createdAt |-> 1 ]
    /\ \E r \in RowsOf(1) :
          r.userId = "alice" /\ r.status = "sent" /\ r.readAt = Null
    /\ \E r \in RowsOf(1) :
          /\ r.userId = "bob" /\ r.status = "read"
          /\ r.deliveredAt = Null /\ r.readAt # Null
    /\ Cardinality(RowsOf(2)) = Cardinality(MembersOf(2))

\* C32: in every state a sent row has neither timestamp, a delivered row
\* has deliveredAt and no readAt, and a read row has readAt.
C32_FieldsMatchStatus ==
    \A r \in statusRows :
       /\ r.status = "sent" => r.deliveredAt = Null /\ r.readAt = Null
       /\ r.status = "delivered" => r.deliveredAt # Null /\ r.readAt = Null
       /\ r.status = "read" => r.readAt # Null

\* C33: whenever no handler of any socket is running, a user with a
\* registry entry has isOnline true and socketId equal to the entry, and a
\* user without one has isOnline false and no socketId.
C33_PresenceMatchesRegistry ==
    (\A s \in Sockets : Quiescent(s)) =>
       \A u \in Users :
          IF connectedUsers[u] # None
          THEN userRow[u].isOnline /\ userRow[u].socketId = connectedUsers[u]
          ELSE ~userRow[u].isOnline /\ userRow[u].socketId = None

\* C37: every socket a new-message broadcast is delivered to belongs to a
\* participant of the message's conversation.
C37_BroadcastToParticipantsOnly ==
    \A i \in Emitted("new-message") :
       \A s \in wire[i].to :
          SocketOwner[s] \in participantsOf(wire[i].conversationId)

\* C36: the client never holds more than one connected socket, whatever the
\* interleaving of initializeSocket calls and disconnectSocket.
C36_OneOpenSocket ==
    Cardinality({ s \in ClientSockets : Connected(s) }) <= 1

\* C38: reconnectAttempts stays within 0..MAX_RECONNECT_ATTEMPTS; a
\* reconnection is counted and scheduled only while the counter is below
\* the limit, by exactly one; every connect of a socket sets it to 0.
C38_ReconnectAttemptsBounded ==
    /\ [](reconnectAttempts \in 0..MAX_RECONNECT_ATTEMPTS)
    /\ [][ /\ (timers' > timers \/ reconnectAttempts' > reconnectAttempts) =>
                /\ reconnectAttempts < MAX_RECONNECT_ATTEMPTS
                /\ reconnectAttempts' = reconnectAttempts + 1
                /\ timers' = timers + 1
           /\ (\E s \in ClientSockets :
                  clientSock[s] = "opening" /\ clientSock'[s] = "connected") =>
                reconnectAttempts' = 0
           /\ reconnectAttempts' < reconnectAttempts =>
                reconnectAttempts' = 0 ]_vars

\* the counter stands at the limit while a socket is still being refused
C38_Witness ==
    /\ reconnectAttempts = MAX_RECONNECT_ATTEMPTS
    /\ \E s \in ClientSockets : clientSock[s] = "opening" /\ sockState[s] = "new"

\* C34: the calls of sendMessage made so far have stored at most one Message
\* each (no other client writes in this scenario).
C34_OneMessagePerCall ==
    Len(messages) <= nextLocal

\* the message with this local id is in the offline queue
InQueue(localMessageId) ==
    \E i \in 1..Len(offlineMessages) :
       offlineMessages[i].localMessageId = localMessageId

\* C35: whenever no sendOfflineMessages run is in flight, every message the
\* client has taken, except the one whose first POST is still awaited, has
\* been stored by the route or is in the offline queue.
C35_QueuedNeverLost ==
    (\A s \in Sockets : flushH[s].pc = "idle") =>
       \A id \in 1..nextLocal :
          \/ id \in saved
          \/ InQueue(id)
          \/ callH.pc = "post" /\ callH.localMessageId = id

====
